---- MODULE Spec2Model ----
(***************************************************************************)
(* Verification model of parts of the Android framework sources:           *)
(*   - SimpleDecodingSource (libstagefright): the start/stop/read          *)
(*     lifecycle and the stop-versus-read handshake;                       *)
(*   - the wpa_supplicant control-socket client (libwifi_system/wifi.cpp); *)
(*   - SupplicantManager::StartSupplicant (supplicant_manager.cpp).        *)
(* Each component has its own variables, initial predicate, next-state     *)
(* relation and specification; a component's specification leaves the      *)
(* other components' variables untouched.                                  *)
(***************************************************************************)
EXTENDS Integers, Sequences, FiniteSets, TLC

(***************************************************************************)
(* Bounds of the model.                                                    *)
(***************************************************************************)
\* Number of caller threads that use one SimpleDecodingSource.
NumThreads == 3
\* doRead's int retry counter wraps to 0 after this many increments
\* (it stands for the width of int).
RetryWrap == 3

Threads == 1..NumThreads

(***************************************************************************)
(*                       SimpleDecodingSource                              *)
(***************************************************************************)
VARIABLES
    mState,             \* ProtectedState::mState
    mReading,           \* ProtectedState::mReading
    mQueuedInputEOS,    \* ProtectedState::mQueuedInputEOS
    mGotOutputEOS,      \* ProtectedState::mGotOutputEOS
    pc,                 \* per thread: where the thread is inside a call
    retries,            \* per thread: the pass of doRead's loop (its counter)
    overflowWraps,      \* the build: signed overflow wraps and is tested
    obs,                \* per thread: what the call in progress has done so far
    lastRet,            \* the call that returned last, with the state it returned in
    stopSucceeded,      \* some stop() has returned OK
    readersAtCodecStop  \* threads inside the read protocol when mCodec->stop() was called

decVars == <<mState, mReading, mQueuedInputEOS, mGotOutputEOS, pc, retries,
             overflowWraps, obs, lastRet, stopSucceeded, readersAtCodecStop>>

\* The wpa_supplicant control-socket client, and the service-status property.
VARIABLES
    ctrl_conn,      \* "NULL" or "OPEN"
    monitor_conn,   \* "NULL" or "OPEN"
    exit_sockets,   \* the two descriptors of the cancellation socket pair
    primary_iface,  \* the interface name read from wifi.interface
    exitBytes,      \* bytes written to exit_sockets[0], readable on exit_sockets[1]
    monQueue,       \* events the supplicant sent, not yet received
    monHup,         \* the supplicant closed its end of the monitor socket
    svcStatus,      \* value of init.svc.wpa_supplicant ("absent": not set)
    svcSerial,      \* change-serial of init.svc.wpa_supplicant
    wpc,            \* the event-wait thread: "idle", or "poll" inside wifi_ctrl_recv
    wcancelled,     \* a command timed out while this wait was inside poll
    wlast,          \* what the last wifi_wait_for_event returned
    clast           \* what the last wifi_command returned

wifiVars == <<ctrl_conn, monitor_conn, exit_sockets, primary_iface, exitBytes,
              monQueue, monHup, wpc, wcancelled, wlast, clast>>
svcVars == <<svcStatus, svcSerial>>

\* SupplicantManager::StartSupplicant.
VARIABLES
    cfgFile,        \* /data/misc/wifi/wpa_supplicant.conf: "absent", "rw", "noaccess"
    p2pFile,        \* /data/misc/wifi/p2p_supplicant.conf, the same
    entropyFile,    \* /data/misc/wifi/entropy.bin, the same
    ctlStarts,      \* the call in progress has written ctl.start
    spc,            \* the caller of StartSupplicant: "idle" or "polling"
    count,          \* StartSupplicant's local count
    pi,             \* StartSupplicant's local pi is not NULL
    serial,         \* StartSupplicant's local serial
    ensured,        \* what ensure_config_file_exists(kSupplicantConfigFile) returned
    slast           \* what the last StartSupplicant returned

supVars == <<cfgFile, p2pFile, entropyFile, ctlStarts, spc, count, pi, serial,
             ensured, slast>>

\* The font cache of HbFontCache.cpp.
VARIABLES
    mCache,         \* LruCache's entries: font ids, least recently accessed first
    fcNext,         \* the unique id the next new MinikinFont gets
    fcAccess,       \* every font id asked for so far, in the order of its last access
    fcReaccesses,   \* gets made so far for a font that was asked for before
    fcPurges,       \* purges made so far
    fcLast          \* what the last operation did

fcVars == <<mCache, fcNext, fcAccess, fcReaccesses, fcPurges, fcLast>>


\* The cue points of a video track (MatroskaExtractor.cpp).
VARIABLES
    mCuePoints,     \* TrackInfo::mCuePoints: the time of each cached cue point
    doneParsing,    \* pCues->DoneParsing(): every cue point of the file is loaded
    cueLast         \* the last seek: its time and what TrackInfo::find returned
cueVars == <<mCuePoints, doneParsing, cueLast>>


\* The AVC frame reassembly of MatroskaSource::read.
VARIABLES
    nalFrame,       \* the bytes of the pending frame read() takes
    mNALSizeLen,    \* the track's NAL-length size (0: unknown)
    nalOut          \* what read() returned: its status and the bytes of *out
nalVars == <<nalFrame, mNALSizeLen, nalOut>>


\* The Vorbis codec-private parser (addVorbisCodecInfo).
VARIABLES
    codecPrivate,   \* the codec-private bytes of the track
    vorbisParts,    \* how they were put together, when they were built from headers
    vorbisOut,      \* what addVorbisCodecInfo returned and stored in meta
    vorbisRead      \* the highest index of codecPrivate it read (-1: none)
vorbisVars == <<codecPrivate, vorbisParts, vorbisOut, vorbisRead>>


\* The word breaker of WordBreaker.cpp.
VARIABLES
    mText,              \* the text, one character per element
    mTextIsNull,        \* mText == nullptr: finish() was called
    icuBoundaries,      \* the offsets the ICU line break iterator proposes
    icuPosition,        \* the current position of mBreakIterator
    mLast,
    mCurrent,
    mScanOffset,
    mInEmailOrUrl,
    mIteratorWasReset,
    wbRun,              \* the last scan for an email address or URL
    wbLast              \* what the last next() returned and how
wbVars ==
    <<mText, mTextIsNull, icuBoundaries, icuPosition, mLast, mCurrent,
      mScanOffset, mInEmailOrUrl, mIteratorWasReset, wbRun, wbLast>>


\* The type and constant fusion of the SPIR-V linker (RSSPIRVWriter.cpp).
VARIABLES
    fuseModule,     \* the lines of the module before FuseTypesAndConstants
    fuseHeader,     \* how many of them, the first ones, are in the HeaderBlock
    fuseOut         \* whether it was called, and the lines after it
fuseVars == <<fuseModule, fuseHeader, fuseOut>>


\* The blocks of a linker module (LinkerModule.cpp).
VARIABLES
    Blocks,         \* LinkerModule::Blocks: the kind and the number of each block
    blocksBefore,   \* Blocks as it was when fixBlockOrder was called
    orderFixed      \* fixBlockOrder was called
blockVars == <<Blocks, blocksBefore, orderFixed>>


\* The decorations of the reflection pass (ReflectionPass.cpp).
VARIABLES
    gpuBlock,       \* the global __GPUBlock of the module: absent, a pointer
                    \* to a struct (with the offsets of its members), or other
    RSAllocs,       \* the names of the detected allocation globals, as discovered
    reflOut         \* what emitDecorations returned and the decorations written
reflVars == <<gpuBlock, RSAllocs, reflOut>>


\* The Wi-Fi Aware native bridge (android_net_wifi_nan_publish).
VARIABLES
    publish_config, \* the managed PublishConfig object passed to publish
    halReturn,      \* what the hardware layer's publish function would return
    awareOut        \* what publish returned, and the requests the hardware got
awareVars == <<publish_config, halReturn, awareOut>>


\* The vector-shuffle fix-up of the main function block (FixVectorShuffles).
VARIABLES
    shufLines,      \* the lines of the main function block
    shufInput,      \* the lines before the first fix-up
    shufFirst,      \* the lines after the first fix-up
    shufFixes       \* the number of fix-ups applied
shufVars == <<shufLines, shufInput, shufFirst, shufFixes>>


\* One line and the replaceId calls made on it (SPIRVLine::replaceId).
VARIABLES
    ridLine,        \* the line
    ridLast,        \* the last call: its arguments, the line before it, its result
    ridCalls        \* the number of calls made
ridVars == <<ridLine, ridLast, ridCalls>>


\* The inlining of the calls of main (Link, FixMain, InlineFunctionCalls).
VARIABLES
    inlFuns,        \* the function blocks of the output module, main left out
    inlMain,        \* the lines of the main function block
    inlBefore,      \* the lines of main before the last inlining pass
    inlState        \* "start", "inlining", "replacing", "done" or "failed"
inlVars == <<inlFuns, inlMain, inlBefore, inlState>>

\* What the operations of one component leave unchanged: the variables of
\* the other components.
outsideDecoder ==
    <<wifiVars, svcVars, supVars, fcVars, cueVars, nalVars, vorbisVars, 
      wbVars, fuseVars, blockVars, reflVars, awareVars, shufVars, ridVars, 
      inlVars>>
outsideWifi ==
    <<decVars, supVars, fcVars, cueVars, nalVars, vorbisVars, wbVars, 
      fuseVars, blockVars, reflVars, awareVars, shufVars, ridVars, inlVars>>
outsideSupplicant ==
    <<decVars, wifiVars, fcVars, cueVars, nalVars, vorbisVars, wbVars, 
      fuseVars, blockVars, reflVars, awareVars, shufVars, ridVars, inlVars>>
outsideService ==
    <<decVars, wifiVars, supVars, fcVars, cueVars, nalVars, vorbisVars, 
      wbVars, fuseVars, blockVars, reflVars, awareVars, shufVars, ridVars, 
      inlVars>>
outsideFontCache ==
    <<decVars, wifiVars, svcVars, supVars, cueVars, nalVars, vorbisVars, 
      wbVars, fuseVars, blockVars, reflVars, awareVars, shufVars, ridVars, 
      inlVars>>
outsideCues ==
    <<decVars, wifiVars, svcVars, supVars, fcVars, nalVars, vorbisVars, 
      wbVars, fuseVars, blockVars, reflVars, awareVars, shufVars, ridVars, 
      inlVars>>
outsideNal ==
    <<decVars, wifiVars, svcVars, supVars, fcVars, cueVars, vorbisVars, 
      wbVars, fuseVars, blockVars, reflVars, awareVars, shufVars, ridVars, 
      inlVars>>
outsideVorbis ==
    <<decVars, wifiVars, svcVars, supVars, fcVars, cueVars, nalVars, 
      wbVars, fuseVars, blockVars, reflVars, awareVars, shufVars, ridVars, 
      inlVars>>
outsideWordBreaker ==
    <<decVars, wifiVars, svcVars, supVars, fcVars, cueVars, nalVars, 
      vorbisVars, fuseVars, blockVars, reflVars, awareVars, shufVars, 
      ridVars, inlVars>>
outsideFuse ==
    <<decVars, wifiVars, svcVars, supVars, fcVars, cueVars, nalVars, 
      vorbisVars, wbVars, blockVars, reflVars, awareVars, shufVars, 
      ridVars, inlVars>>
outsideBlocks ==
    <<decVars, wifiVars, svcVars, supVars, fcVars, cueVars, nalVars, 
      vorbisVars, wbVars, fuseVars, reflVars, awareVars, shufVars, ridVars, 
      inlVars>>
outsideReflect ==
    <<decVars, wifiVars, svcVars, supVars, fcVars, cueVars, nalVars, 
      vorbisVars, wbVars, fuseVars, blockVars, awareVars, shufVars, 
      ridVars, inlVars>>
outsideAware ==
    <<decVars, wifiVars, svcVars, supVars, fcVars, cueVars, nalVars, 
      vorbisVars, wbVars, fuseVars, blockVars, reflVars, shufVars, ridVars, 
      inlVars>>
outsideShuffle ==
    <<decVars, wifiVars, svcVars, supVars, fcVars, cueVars, nalVars, 
      vorbisVars, wbVars, fuseVars, blockVars, reflVars, awareVars, 
      ridVars, inlVars>>
outsideRid ==
    <<decVars, wifiVars, svcVars, supVars, fcVars, cueVars, nalVars, 
      vorbisVars, wbVars, fuseVars, blockVars, reflVars, awareVars, 
      shufVars, inlVars>>
outsideInline ==
    <<decVars, wifiVars, svcVars, supVars, fcVars, cueVars, nalVars, 
      vorbisVars, wbVars, fuseVars, blockVars, reflVars, awareVars, 
      shufVars, ridVars>>

vars ==
    <<decVars, wifiVars, svcVars, supVars, fcVars, cueVars, nalVars, 
      vorbisVars, wbVars, fuseVars, blockVars, reflVars, awareVars, 
      shufVars, ridVars, inlVars>>

\* What a call in progress has done so far: the state it was entered in,
\* whether a stop had already succeeded when it was entered, whether it called
\* the codec or the source, the codec calls that failed, whether it waited on
\* mReadCondition.
NoObs ==
    [from |-> "none", afterStop |-> FALSE, touched |-> FALSE, fails |-> {},
     waited |-> FALSE]

\* How a read left the loop around mSource->read (lines 242-269): the result of
\* that mSource->read, the state seen once the lock was taken again, whether
\* the input EOS marker was queued.  NoSrc for a call that returned elsewhere.
NoSrc == [res |-> "none", state |-> "none", eosQueued |-> FALSE]

NoRet ==
    [op |-> "none", ret |-> "none", state |-> "INIT", buffer |-> "NULL",
     from |-> "none", afterStop |-> FALSE, touched |-> FALSE, fails |-> {},
     waited |-> FALSE, src |-> NoSrc]

\* The record of a call that returns now.
RetRecord(op, res, st, buf, o, src) ==
    [op |-> op, ret |-> res, state |-> st, buffer |-> buf,
     from |-> o.from, afterStop |-> o.afterStop, touched |-> o.touched,
     fails |-> o.fails, waited |-> o.waited, src |-> src]

\* A call entered now.
Entered == [NoObs EXCEPT !.from = mState, !.afterStop = stopSucceeded]

\* ProtectedState::ProtectedState, and no call in progress.  The build is
\* either one where the overflow of doRead's counter wraps, or one where the
\* compiler took the overflow for impossible and dropped the loop test.
DecInit ==
    /\ mState = "INIT"
    /\ mReading = FALSE
    /\ mQueuedInputEOS = FALSE
    /\ mGotOutputEOS = FALSE
    /\ pc = [t \in Threads |-> "idle"]
    /\ retries = [t \in Threads |-> 0]
    /\ overflowWraps \in BOOLEAN
    /\ obs = [t \in Threads |-> NoObs]
    /\ lastRet = NoRet
    /\ stopSucceeded = FALSE
    /\ readersAtCodecStop = {}

\* The decoding source while another component is exercised.
DecIdle == DecInit /\ overflowWraps

\* A call of thread t that does not touch mReading returns res in state st.
\* (start, stop, getFormat, and read's early return.)
Return(t, op, res, st, o) ==
    /\ mState' = st
    /\ pc' = [pc EXCEPT ![t] = "idle"]
    /\ obs' = [obs EXCEPT ![t] = NoObs]
    /\ lastRet' = RetRecord(op, res, st, "NULL", o, NoSrc)

\* start(): the guard of line 108.
StartAllowedAfterStop == mState \in {"INIT", "STOPPED"}
StartAllowed == mState = "INIT"

\* start(), the whole call: it runs under the lock.
Start(t) ==
    /\ pc[t] = "idle"
    /\ IF ~StartAllowed
       THEN /\ Return(t, "start", "EINVAL", mState, Entered)
            /\ UNCHANGED <<mQueuedInputEOS, mGotOutputEOS>>
       ELSE \E cs \in {"OK", "ERR"}, ss \in {"OK", "ERR"} :
              LET res == IF cs = "OK" THEN ss ELSE cs
                  o == [Entered EXCEPT
                          !.touched = TRUE,
                          !.fails = IF cs # "OK" THEN {"codecStart"}
                                    ELSE IF ss # "OK" THEN {"sourceStart"}
                                    ELSE {}]
              IN  /\ Return(t, "start", res,
                            IF res = "OK" THEN "STARTED" ELSE "ERROR", o)
                  /\ mQueuedInputEOS' =
                        (IF res = "OK" THEN FALSE ELSE mQueuedInputEOS)
                  /\ mGotOutputEOS' =
                        (IF res = "OK" THEN FALSE ELSE mGotOutputEOS)
    /\ UNCHANGED <<mReading, retries, overflowWraps, stopSucceeded,
                   readersAtCodecStop>>
    /\ UNCHANGED outsideDecoder

\* The threads that are inside the read protocol: between read() setting
\* mReading and read() clearing it.
InReadProtocol == {r \in Threads : pc[r] \in {"srcRead", "outDeq"}}

\* stop(), lines 139-149: stop the codec and the source, set the final state.
StopFinish(t, o) ==
    \E res1 \in {"OK", "ERR"}, res2 \in {"OK", "ERR"} :
      LET res == IF res1 # "OK" THEN res1 ELSE res2
          o2 == [o EXCEPT
                   !.touched = TRUE,
                   !.fails = (IF res1 # "OK" THEN {"codecStop"} ELSE {})
                             \cup (IF res2 # "OK" THEN {"sourceStop"} ELSE {})]
      IN  /\ readersAtCodecStop' = InReadProtocol
          /\ Return(t, "stop", res,
                    IF res1 = "OK" /\ res2 = "OK" THEN "STOPPED" ELSE "ERROR",
                    o2)
          /\ stopSucceeded' = (stopSucceeded \/ res = "OK")

\* stop(): the loop condition of line 135.
StopMustWait == mReading

\* stop(), from its entry to its first wait or to its return.
StopBegin(t) ==
    /\ pc[t] = "idle"
    /\ IF mState # "STARTED"
       THEN /\ Return(t, "stop", "EINVAL", mState, Entered)
            /\ UNCHANGED <<stopSucceeded, readersAtCodecStop>>
       ELSE IF StopMustWait
       THEN /\ mState' = "STOPPING"
            /\ pc' = [pc EXCEPT ![t] = "stopWait"]
            /\ obs' = [obs EXCEPT ![t] = [Entered EXCEPT !.waited = TRUE]]
            /\ UNCHANGED <<lastRet, stopSucceeded, readersAtCodecStop>>
       ELSE StopFinish(t, Entered)
    /\ UNCHANGED <<mReading, mQueuedInputEOS, mGotOutputEOS, retries,
                   overflowWraps>>
    /\ UNCHANGED outsideDecoder

\* stop(), woken from waitForCondition: it holds the lock again and re-tests
\* the loop condition.
StopWake(t) ==
    /\ pc[t] = "stopWoken"
    /\ IF StopMustWait
       THEN /\ pc' = [pc EXCEPT ![t] = "stopWait"]
            /\ UNCHANGED <<mState, obs, lastRet, stopSucceeded,
                           readersAtCodecStop>>
       ELSE StopFinish(t, obs[t])
    /\ UNCHANGED <<mReading, mQueuedInputEOS, mGotOutputEOS, retries,
                   overflowWraps>>
    /\ UNCHANGED outsideDecoder

\* getFormat(), the whole call.
GetFormat(t) ==
    /\ pc[t] = "idle"
    /\ Return(t, "getFormat",
              IF mState \in {"STARTED", "INIT"} THEN "FORMAT" ELSE "NULL",
              mState, Entered)
    /\ UNCHANGED <<mReading, mQueuedInputEOS, mGotOutputEOS, retries,
                   overflowWraps, stopSucceeded, readersAtCodecStop>>
    /\ UNCHANGED outsideDecoder

\* read(): the test of line 184 that decides whether to signal mReadCondition.
SignalNeededWhenStarted(st) == st = "STARTED"
SignalNeeded(st) == st # "STARTED"

\* read(), lines 182-188, after doRead returned res in state st: clear
\* mReading, signal a waiting stop, return.
ReadReturnVia(t, st, q, g, o, res, buf, src) ==
    /\ mState' = st
    /\ mReading' = FALSE
    /\ mQueuedInputEOS' = q
    /\ mGotOutputEOS' = g
    /\ pc' = [x \in Threads |->
                IF x = t THEN "idle"
                ELSE IF SignalNeeded(st) /\ pc[x] = "stopWait" THEN "stopWoken"
                ELSE pc[x]]
    /\ retries' = [retries EXCEPT ![t] = 0]
    /\ obs' = [obs EXCEPT ![t] = NoObs]
    /\ lastRet' = RetRecord("read", res, st, buf, o, src)

\* The same, for a return that is not out of the loop around mSource->read.
ReadReturn(t, st, q, g, o, res, buf) ==
    ReadReturnVia(t, st, q, g, o, res, buf, NoSrc)

\* doRead leaves the lock to call mSource->read (line 241) or
\* mCodec->dequeueOutputBuffer (line 300).
Unlock(t, where, st, rd, q, g, o, r) ==
    /\ mState' = st
    /\ mReading' = rd
    /\ mQueuedInputEOS' = q
    /\ mGotOutputEOS' = g
    /\ pc' = [pc EXCEPT ![t] = where]
    /\ retries' = [retries EXCEPT ![t] = r]
    /\ obs' = [obs EXCEPT ![t] = [o EXCEPT !.touched = TRUE]]
    /\ UNCHANGED lastRet

\* doRead, lines 231-236: the state after the codec would not hand over an
\* input buffer.
InputBufferFailureKeepsState(st) == st
InputBufferFailureState(st) == "ERROR"

\* doRead, lines 218-241 and 300: one pass of the input loop, up to the point
\* where the lock is left or doRead returns.
FillInput(t, st, rd, q, g, o, r) ==
    IF q
    THEN Unlock(t, "outDeq", st, rd, q, g, o, r)
    ELSE \E di \in {"OK", "EAGAIN", "ERR"}, gi \in {"OK", "FAIL"} :
           LET o1 == [o EXCEPT !.touched = TRUE]
           IN  CASE di = "EAGAIN" -> Unlock(t, "outDeq", st, rd, q, g, o1, r)
                 [] di = "ERR" ->
                      ReadReturn(t, InputBufferFailureState(st), q, g,
                                 [o1 EXCEPT !.fails = @ \cup {"deqIn"}],
                                 "UNKNOWN_ERROR", "NULL")
                 [] di = "OK" /\ gi = "FAIL" ->
                      ReadReturn(t, InputBufferFailureState(st), q, g,
                                 [o1 EXCEPT !.fails = @ \cup {"getIn"}],
                                 "UNKNOWN_ERROR", "NULL")
                 [] di = "OK" /\ gi = "OK" ->
                      Unlock(t, "srcRead", st, rd, q, g, o1, r)

\* read(): the test of line 175.
ReadRefusedOnlyInInit == mState = "INIT"
ReadRefused == mState # "STARTED"

\* read(), from its entry to the first point where doRead leaves the lock, or
\* to its return.
ReadBegin(t) ==
    /\ pc[t] = "idle"
    /\ IF ReadRefused
       THEN /\ Return(t, "read", "EOS", mState, Entered)
            /\ UNCHANGED <<mReading, mQueuedInputEOS, mGotOutputEOS, retries>>
       ELSE \E seek \in BOOLEAN :
              LET q == IF seek THEN FALSE ELSE mQueuedInputEOS
                  g == IF seek THEN FALSE ELSE mGotOutputEOS
                  o == [Entered EXCEPT !.touched = seek]
              IN  IF g
                  THEN ReadReturn(t, mState, q, g, o, "EOS", "NULL")
                  ELSE FillInput(t, mState, TRUE, q, g, o, 1)
    /\ UNCHANGED <<overflowWraps, stopSucceeded, readersAtCodecStop>>
    /\ UNCHANGED outsideDecoder

\* doRead, lines 242-298: mSource->read has returned, the lock is taken again.
SourceReadReturn(t) ==
    /\ pc[t] = "srcRead"
    /\ \E sr \in {"OK_data", "OK_empty", "OK_null", "EOS", "ERR"},
          qr \in {"OK", "ERR"} :
         LET res == IF sr \in {"EOS", "ERR"} THEN sr ELSE "OK"
             o == obs[t]
             src == [res |-> res, state |-> mState, eosQueued |-> qr = "OK"]
         IN  IF res # "OK" \/ mState # "STARTED"
             THEN \* queue EOS
                  IF qr # "OK"
                  THEN ReadReturnVia(t, "ERROR", TRUE, mGotOutputEOS,
                                     [o EXCEPT !.fails = @ \cup {"queueEOS"}],
                                     "UNKNOWN_ERROR", "NULL", src)
                  ELSE IF res # "EOS"
                  THEN ReadReturnVia(t, "ERROR", TRUE, mGotOutputEOS, o,
                                     res, "NULL", src)
                  ELSE IF mState # "STARTED"
                  THEN ReadReturnVia(t, mState, TRUE, mGotOutputEOS, o,
                                     "EOS", "NULL", src)
                  ELSE FillInput(t, mState, mReading, TRUE, mGotOutputEOS,
                                 o, retries[t])
             ELSE IF sr \in {"OK_null", "OK_empty"}
             THEN \* in_buf == NULL, or an empty buffer: read the source again
                  /\ qr = "OK"
                  /\ Unlock(t, "srcRead", mState, mReading, mQueuedInputEOS,
                            mGotOutputEOS, o, retries[t])
             ELSE \* queue the input buffer; a failure sets ERROR and goes on
                  FillInput(t, IF qr = "OK" THEN mState ELSE "ERROR", mReading,
                            mQueuedInputEOS, mGotOutputEOS,
                            IF qr = "OK" THEN o
                            ELSE [o EXCEPT !.fails = @ \cup {"queueData"}],
                            retries[t])
    /\ UNCHANGED <<overflowWraps, stopSucceeded, readersAtCodecStop>>
    /\ UNCHANGED outsideDecoder

\* doRead, line 213: the loop test ++retries of a pass that follows a
\* "continue"; r is the number of the pass that ends.  The counter starts at
\* 1 and is only incremented, so it comes to 0 only by overflowing at INT_MAX,
\* which is undefined for a signed int: a build in which the addition wraps
\* sees 0 one full cycle of the counter after the loop was entered; a build
\* that took the overflow for impossible has no test left.
LoopTestFails(r) == overflowWraps /\ (r + 1) % RetryWrap = 0

\* The number of the pass that follows pass r, counted up to RetryWrap (a
\* pass with that number is one the wrapping counter would not have begun).
NextPass(r) == IF r < RetryWrap THEN r + 1 ELSE r

\* doRead, lines 301-358: mCodec->dequeueOutputBuffer has returned, the lock
\* is taken again.
OutputDequeueReturn(t) ==
    /\ pc[t] = "outDeq"
    /\ \E dr \in {"OK", "EAGAIN", "INFO_FORMAT_CHANGED",
                   "INFO_OUTPUT_BUFFERS_CHANGED", "ERR"},
          aux \in {"OK", "ERR"}, eos \in BOOLEAN, empty \in BOOLEAN :
         LET o == IF dr # "ERR" THEN obs[t]
                  ELSE [obs[t] EXCEPT !.fails = @ \cup
                          {IF mState = "STARTED" THEN "deqOut"
                           ELSE "deqOutNotStarted"}]
             q == mQueuedInputEOS
             g == mGotOutputEOS
             r == NextPass(retries[t])
         IN  CASE mState # "STARTED" ->
                    \* abort read on stop
                    /\ aux = "OK" /\ ~eos /\ ~empty
                    /\ ReadReturn(t, mState, q, g, o, "EOS", "NULL")
               [] mState = "STARTED"
                    /\ dr \in {"EAGAIN", "INFO_OUTPUT_BUFFERS_CHANGED"} ->
                    /\ aux = "OK" /\ ~eos /\ ~empty
                    /\ IF LoopTestFails(retries[t])
                       THEN ReadReturn(t, mState, q, g, o, "TIMED_OUT", "NULL")
                       ELSE FillInput(t, mState, mReading, q, g, o, r)
               [] mState = "STARTED" /\ dr = "INFO_FORMAT_CHANGED" ->
                    /\ ~eos /\ ~empty
                    /\ IF aux = "OK"
                       THEN ReadReturn(t, mState, q, g, o, dr, "NULL")
                       ELSE ReadReturn(t, "ERROR", q, g,
                                       [o EXCEPT !.fails = @ \cup {"getFormat"}],
                                       "UNKNOWN_ERROR", "NULL")
               [] mState = "STARTED" /\ dr = "ERR" ->
                    /\ aux = "OK" /\ ~eos /\ ~empty
                    /\ ReadReturn(t, "ERROR", q, g, o, dr, "NULL")
               [] mState = "STARTED" /\ dr = "OK" ->
                    IF aux # "OK"
                    THEN /\ ~eos /\ ~empty
                         /\ ReadReturn(t, "ERROR", q, g,
                                       [o EXCEPT !.fails = @ \cup {"getOut"}],
                                       "UNKNOWN_ERROR", "NULL")
                    ELSE IF eos /\ empty
                    THEN ReadReturn(t, mState, q, TRUE, o, "EOS", "NULL")
                    ELSE ReadReturn(t, mState, q, g \/ eos, o, "OK", "BUFFER")
    /\ UNCHANGED <<overflowWraps, stopSucceeded, readersAtCodecStop>>
    /\ UNCHANGED outsideDecoder

DecNext ==
    \E t \in Threads :
        \/ Start(t)
        \/ StopBegin(t)
        \/ StopWake(t)
        \/ GetFormat(t)
        \/ ReadBegin(t)
        \/ SourceReadReturn(t)
        \/ OutputDequeueReturn(t)

(***************************************************************************)
(*          wpa_supplicant control-socket client (wifi.cpp)                *)
(*                                                                         *)
(* A C string is a tuple of one-character strings.  A char buffer is a     *)
(* tuple too; C's index i is the tuple's index i + 1.                      *)
(***************************************************************************)
\* Size of the buffer the caller passes to wifi_wait_for_event.
BufLen == 48
\* Longest tail of a generated monitor payload.
MaxTail == 6
\* Capacity of the monitor socket's receive queue, in events.
MaxMonQueue == 1
\* Bytes the cancellation socket pair is let to hold.
MaxExitBytes == 2
\* The service-status property's change-serial is counted up to this.
MaxSerial == 2


NUL == "NUL"
\* A byte that this call did not write (the caller's buffer as it was, or
\* memory past the buffer).
Stale == "?"

IFNAME == <<"I", "F", "N", "A", "M", "E", "=">>
IFNAMELEN == Len(IFNAME)
WPA_EVENT_IGNORE == <<"C", "T", "R", "L", "-", "E", "V", "E", "N", "T", "-", "I", "G", "N", "O", "R", "E", " ">>
WPA_EVENT_TERMINATING == <<"C", "T", "R", "L", "-", "E", "V", "E", "N", "T", "-", "T", "E", "R", "M", "I", "N", "A", "T", "I", "N", "G", " ">>
WIFI_TEST_INTERFACE == <<"s", "t", "a">>

ReasonClosed == <<" ", "-", " ", "c", "o", "n", "n", "e", "c", "t", "i", "o", "n", " ", "c", "l", "o", "s", "e", "d">>
ReasonRecvError == <<" ", "-", " ", "r", "e", "c", "v", " ", "e", "r", "r", "o", "r">>
ReasonSignal0 == <<" ", "-", " ", "s", "i", "g", "n", "a", "l", " ", "0", " ", "r", "e", "c", "e", "i", "v", "e", "d">>

\* buf[i], for a C index i.
At(buf, i) == IF i + 1 \in DOMAIN buf THEN buf[i + 1] ELSE Stale

SetMin(S) == CHOOSE x \in S : \A y \in S : x <= y

\* strchr(buf + from, c): the C index of the first c at or after from and
\* before the terminating NUL, or -1 for a null pointer.
StrChr(buf, from, c) ==
    LET hits == {i \in from..(Len(buf) - 1) : At(buf, i) \in {c, NUL}}
    IN  IF hits = {} THEN -1
        ELSE IF At(buf, SetMin(hits)) = c THEN SetMin(hits) ELSE -1

\* strncmp(buf, prefix, n) == 0, for a prefix of n characters without NUL.
StrNCmpEq(buf, prefix, n) == \A i \in 0..(n - 1) : At(buf, i) = prefix[i + 1]

\* memmove(buf + dst, buf + src, n).
MemMove(buf, dst, src, n) ==
    [i \in 1..Len(buf) |->
        IF (i - 1) \in dst..(dst + n - 1)
        THEN At(buf, src + (i - 1 - dst))
        ELSE buf[i]]

\* The C string held in buf: the characters before the first NUL.
CStr(buf) ==
    LET ends == {i \in 0..(Len(buf) - 1) : At(buf, i) = NUL}
    IN  IF ends = {} THEN buf ELSE SubSeq(buf, 1, SetMin(ends))

\* snprintf(buf, BufLen, "%s", str): the string stored (cut to BufLen - 1
\* characters) and the value returned (the uncut length).
Snprintf(str) ==
    [str |-> SubSeq(str, 1, IF Len(str) < BufLen THEN Len(str) ELSE BufLen - 1),
     ret |-> Len(str)]

\* "IFNAME=%s %s<reason>" with primary_iface and WPA_EVENT_TERMINATING.
TerminatingEvent(reason) ==
    Snprintf(IFNAME \o primary_iface \o <<" ">> \o WPA_EVENT_TERMINATING
             \o reason)

\* wpa_ctrl_recv into the caller's buffer with reply_len = BufLen - 1, and
\* line 236: the buffer holds the datagram, cut to BufLen - 1 bytes, and a NUL.
Received(payload) ==
    LET n == IF Len(payload) < BufLen THEN Len(payload) ELSE BufLen - 1
    IN  [buf |-> [i \in 1..BufLen |->
                    IF i <= n THEN payload[i]
                    ELSE IF i = n + 1 THEN NUL ELSE Stale],
         nread |-> n]

\* wifi_wait_on_socket, lines 262-263: drop the <N> that follows the blank
\* at match; match2 is the '>'.
StripTagAfterIfname(buf, nread, match, match2) ==
    LET n == nread - (match2 - match)
    IN  [str |-> CStr(MemMove(buf, match + 1, match2 + 1, n - match + 1)),
         ret |-> n]

\* wifi_wait_on_socket, lines 256-284: strip the message level of a received
\* event.  The string handed to the caller and the value returned.
StripLevel(buf, nread) ==
    IF StrNCmpEq(buf, IFNAME, IFNAMELEN)
    THEN LET match == StrChr(buf, 0, " ")
         IN  IF match # -1
             THEN IF At(buf, match + 1) = "<"
                  THEN LET match2 == StrChr(buf, match + 2, ">")
                       IN  IF match2 # -1
                           THEN StripTagAfterIfname(buf, nread, match, match2)
                           ELSE [str |-> CStr(buf), ret |-> nread]
                  ELSE [str |-> CStr(buf), ret |-> nread]
             ELSE Snprintf(WPA_EVENT_IGNORE)
    ELSE IF At(buf, 0) = "<"
    THEN LET match == StrChr(buf, 0, ">")
         IN  IF match # -1
             THEN [str |-> CStr(MemMove(buf, 0, match + 1,
                                        nread - (match + 1) + 1)),
                   ret |-> nread - (match + 1)]
             ELSE [str |-> CStr(buf), ret |-> nread]
    ELSE [str |-> CStr(buf), ret |-> nread]

\* The payload of the specification's example.
ExamplePayload == <<"I", "F", "N", "A", "M", "E", "=", "w", "l", "a", "n", "0", " ", "<", "3", ">", "C", "T", "R", "L", "-", "E", "V", "E", "N", "T", "-", "C", "O", "N", "N", "E", "C", "T", "E", "D", " ", "-", " ", "f", "o", "o">>

\* Generated payloads: with or without the IFNAME= prefix, then every string
\* of at most MaxTail characters over this alphabet.
EventAlphabet == {" ", "<", ">", "3"}
Tails == UNION {[1..n -> EventAlphabet] : n \in 0..MaxTail}
EventPayloads == {ExamplePayload} \cup {h \o tl : h \in {<<>>, IFNAME}, tl \in Tails}

\* The payloads the supplicant sends in the protocol specification.
ProtocolPayloads == {ExamplePayload, <<"<", "3", ">", "3">>}
Ifaces == {WIFI_TEST_INTERFACE, <<"w">>}

\* No wifi_command has returned yet.
NoCommand == [called |-> FALSE, ret |-> 0]

NoWait == [kind |-> "none", raw |-> <<>>, str |-> <<>>, ret |-> 0,
           cancelled |-> FALSE, monReady |-> FALSE]

\* The globals are zero-initialised; nothing is connected, no call is made.
WifiInit ==
    /\ ctrl_conn = "NULL"
    /\ monitor_conn = "NULL"
    /\ exit_sockets = <<0, 0>>
    /\ primary_iface = <<>>
    /\ exitBytes = 0
    /\ monQueue = <<>>
    /\ monHup = FALSE
    /\ wpc = "idle"
    /\ wcancelled = FALSE
    /\ wlast = NoWait
    /\ clast = NoCommand

SvcInit ==
    /\ svcStatus \in {"absent", "stopped", "running"}
    /\ svcSerial = 0

\* The service-status property as it is before init has set it.
SvcAbsent ==
    /\ svcStatus = "absent"
    /\ svcSerial = 0

\* SupplicantManager::IsSupplicantRunning.
IsSupplicantRunning == svcStatus = "running"

\* wifi_connect_to_supplicant and wifi_connect_on_socket_path.  It is called
\* while no thread is inside wifi_wait_for_event.
ConnectToSupplicant ==
    /\ wpc = "idle"
    /\ \E iface \in Ifaces : primary_iface' = iface
    /\ IF ~IsSupplicantRunning
       THEN UNCHANGED <<ctrl_conn, monitor_conn, exit_sockets, exitBytes,
                        monQueue, monHup>>
       ELSE \E step \in {"ctrl", "monitor", "attach", "socketpair", "ok"} :
              IF step = "ok"
              THEN /\ ctrl_conn' = "OPEN"
                   /\ monitor_conn' = "OPEN"
                   /\ exit_sockets' = <<3, 4>>
                   /\ exitBytes' = 0
                   /\ monQueue' = <<>>
                   /\ monHup' = FALSE
              ELSE /\ ctrl_conn' = "NULL"
                   /\ monitor_conn' = (IF step = "ctrl" THEN monitor_conn
                                       ELSE "NULL")
                   /\ UNCHANGED <<exit_sockets, exitBytes, monQueue, monHup>>
    /\ UNCHANGED <<wpc, wcancelled, wlast, clast, svcVars, outsideWifi>>

\* wifi_close_supplicant_connection: wifi_close_sockets, then the wait for the
\* supplicant to stop, which changes nothing.  It is called while no thread is
\* inside wifi_wait_for_event.
CloseSupplicantConnection ==
    /\ wpc = "idle"
    /\ ctrl_conn' = "NULL"
    /\ monitor_conn' = "NULL"
    /\ exit_sockets' = [i \in 1..2 |-> IF exit_sockets[i] >= 0 THEN -1
                                       ELSE exit_sockets[i]]
    /\ exitBytes' = 0
    /\ monQueue' = <<>>
    /\ monHup' = FALSE
    /\ UNCHANGED <<primary_iface, wpc, wcancelled, wlast, clast, svcVars, outsideWifi>>

\* wifi_send_command, lines 162-166: what a timed-out request does to the
\* cancellation socket pair.
TimeoutWritesNothing == exitBytes
TimeoutWrite ==
    IF exitBytes < MaxExitBytes THEN exitBytes + 1 ELSE exitBytes

\* wifi_command / wifi_send_command.
Command ==
    /\ IF ctrl_conn = "NULL"
       THEN /\ clast' = [called |-> TRUE, ret |-> -1]
            /\ UNCHANGED <<exitBytes, wcancelled>>
       ELSE \E r \in {"ok", "FAIL", "error", "timeout"} :
              IF r = "timeout"
              THEN /\ exitBytes' = TimeoutWrite
                   /\ wcancelled' = (wcancelled \/ wpc = "poll")
                   /\ clast' = [called |-> TRUE, ret |-> -2]
              ELSE /\ clast' = [called |-> TRUE,
                              ret |-> IF r = "ok" THEN 0 ELSE -1]
                   /\ UNCHANGED <<exitBytes, wcancelled>>
    /\ UNCHANGED <<ctrl_conn, monitor_conn, exit_sockets, primary_iface,
                   monQueue, monHup, wpc, wlast, svcVars, outsideWifi>>

\* wifi_wait_for_event returns.  What is kept of the call: the datagram it
\* received (raw), the string in the caller's buffer and the value returned,
\* whether a command timed out during it, and whether the monitor socket was
\* readable when poll returned.
WaitReturn(kind, res, monReady) ==
    /\ wpc' = "idle"
    /\ wlast' = [kind |-> kind,
                 raw |-> IF kind = "event" THEN Head(monQueue) ELSE <<>>,
                 str |-> res.str, ret |-> res.ret,
                 cancelled |-> wcancelled, monReady |-> monReady]
    /\ wcancelled' = FALSE

\* wifi_wait_for_event / wifi_wait_on_socket, up to the poll of wifi_ctrl_recv.
WaitBegin ==
    /\ wpc = "idle"
    /\ IF monitor_conn = "NULL"
       THEN WaitReturn("closed", TerminatingEvent(ReasonClosed), FALSE)
       ELSE /\ wpc' = "poll"
            /\ wcancelled' = FALSE
            /\ UNCHANGED wlast
    /\ UNCHANGED <<ctrl_conn, monitor_conn, exit_sockets, primary_iface,
                   exitBytes, monQueue, monHup, clast, svcVars, outsideWifi>>

MonitorReadable == monQueue # <<>> \/ monHup
ExitReadable == exitBytes > 0

\* poll fails (res < 0): wifi_ctrl_recv returns it, wifi_wait_on_socket
\* reports a receive error.
PollError ==
    /\ wpc = "poll"
    /\ WaitReturn("recv error", TerminatingEvent(ReasonRecvError),
                  MonitorReadable)
    /\ UNCHANGED <<ctrl_conn, monitor_conn, exit_sockets, primary_iface,
                   exitBytes, monQueue, monHup, clast, svcVars, outsideWifi>>

\* poll times out after 30 s: nothing is readable.  The wait goes on if the
\* supplicant is still running and ends with -2 otherwise.
PollTimeout ==
    /\ wpc = "poll"
    /\ ~MonitorReadable /\ ~ExitReadable
    /\ IF IsSupplicantRunning
       THEN UNCHANGED <<wpc, wcancelled, wlast>>
       ELSE WaitReturn("closed", TerminatingEvent(ReasonClosed), FALSE)
    /\ UNCHANGED <<ctrl_conn, monitor_conn, exit_sockets, primary_iface,
                   exitBytes, monQueue, monHup, clast, svcVars, outsideWifi>>

\* wifi_wait_on_socket, lines 223-284, for every datagram the supplicant can
\* send here: the length wpa_ctrl_recv reports, and what the stripping of the
\* level leaves in the caller's buffer and returns.
RecvAndStrip ==
    [p \in ProtocolPayloads \cup EventPayloads |->
        [nread |-> Received(p).nread,
         stripped |-> StripLevel(Received(p).buf, Received(p).nread)]]

\* poll reports the monitor socket readable and wpa_ctrl_recv receives an
\* event: wifi_wait_on_socket strips its level and hands it to the caller.
ReceiveEvent ==
    /\ wpc = "poll"
    /\ monQueue # <<>>
    /\ LET rcv == RecvAndStrip[Head(monQueue)]
       IN  IF rcv.nread = 0
           THEN WaitReturn("signal 0", TerminatingEvent(ReasonSignal0), TRUE)
           ELSE WaitReturn("event", rcv.stripped, TRUE)
    /\ monQueue' = Tail(monQueue)
    /\ UNCHANGED <<ctrl_conn, monitor_conn, exit_sockets, primary_iface,
                   exitBytes, monHup, clast, svcVars, outsideWifi>>

\* poll reports the monitor socket readable and wpa_ctrl_recv fails, or
\* reads the end-of-file of a socket the supplicant closed.
ReceiveNothing ==
    /\ wpc = "poll"
    /\ MonitorReadable
    /\ \/ WaitReturn("recv error", TerminatingEvent(ReasonRecvError), TRUE)
       \/ /\ monQueue = <<>>
          /\ WaitReturn("signal 0", TerminatingEvent(ReasonSignal0), TRUE)
    /\ UNCHANGED <<ctrl_conn, monitor_conn, exit_sockets, primary_iface,
                   exitBytes, monQueue, monHup, clast, svcVars, outsideWifi>>

\* poll reports only the cancellation socket readable: wifi_ctrl_recv returns
\* -2 (lines 202-209).
PollCancelled ==
    /\ wpc = "poll"
    /\ ~MonitorReadable /\ ExitReadable
    /\ WaitReturn("closed", TerminatingEvent(ReasonClosed), FALSE)
    /\ UNCHANGED <<ctrl_conn, monitor_conn, exit_sockets, primary_iface,
                   exitBytes, monQueue, monHup, clast, svcVars, outsideWifi>>

\* The supplicant sends an event to the attached monitor connection.
SupplicantEvent ==
    /\ monitor_conn = "OPEN"
    /\ IsSupplicantRunning
    /\ ~monHup
    /\ Len(monQueue) < MaxMonQueue
    /\ \E p \in ProtocolPayloads : monQueue' = Append(monQueue, p)
    /\ UNCHANGED <<ctrl_conn, monitor_conn, exit_sockets, primary_iface,
                   exitBytes, monHup, wpc, wcancelled, wlast, clast, svcVars, outsideWifi>>

\* The supplicant closes its end of the monitor socket.
SupplicantHangup ==
    /\ monitor_conn = "OPEN"
    /\ ~monHup
    /\ monHup' = TRUE
    /\ UNCHANGED <<ctrl_conn, monitor_conn, exit_sockets, primary_iface,
                   exitBytes, monQueue, wpc, wcancelled, wlast, clast, svcVars, outsideWifi>>

\* init changes the service-status property.
ServiceStatusChange ==
    /\ svcSerial < MaxSerial
    /\ \E v \in {"running", "stopped", "restarting"} :
         /\ v # svcStatus
         /\ svcStatus' = v
    /\ svcSerial' = svcSerial + 1
    /\ UNCHANGED outsideService

WifiNext ==
    \/ ConnectToSupplicant
    \/ CloseSupplicantConnection
    \/ Command
    \/ WaitBegin
    \/ PollError
    \/ PollTimeout
    \/ ReceiveEvent
    \/ ReceiveNothing
    \/ PollCancelled
    \/ SupplicantEvent
    \/ SupplicantHangup
    \/ ServiceStatusChange

\* A connected client whose event-wait thread is inside poll, with one event
\* of EventPayloads on the monitor socket.
WifiEventInit ==
    /\ ctrl_conn = "OPEN"
    /\ monitor_conn = "OPEN"
    /\ exit_sockets = <<3, 4>>
    /\ primary_iface \in Ifaces
    /\ exitBytes = 0
    /\ \E p \in EventPayloads : monQueue = <<p>>
    /\ monHup = FALSE
    /\ wpc = "poll"
    /\ wcancelled = FALSE
    /\ wlast = NoWait
    /\ clast = NoCommand
    /\ svcStatus = "running"
    /\ svcSerial = 0

(***************************************************************************)
(*        SupplicantManager::StartSupplicant (supplicant_manager.cpp)      *)
(***************************************************************************)
\* "int count = 200": the polls of the service-status property.
StartPollCount == 200


FileStates == {"absent", "rw", "noaccess"}
\* The system call of an ensure_*_file_exists call that fails for a reason
\* other than the state of the file ("none": no such failure).
Faults == {"none", "access", "chmod", "opensrc", "opendest", "read", "write"}

\* access(file, R_OK | W_OK): "OK", or the errno.
Access(file, fault) ==
    IF fault = "access" THEN "EOTHER"
    ELSE IF file = "rw" THEN "OK"
    ELSE IF file = "noaccess" THEN "EACCES"
    ELSE "ENOENT"

\* ensure_config_file_exists: the int it returns (false is 0, true is 1) and
\* the file it leaves.
ensure_config_file_exists(file, fault) ==
    LET acc == Access(file, fault)
    IN  IF acc \in {"OK", "EACCES"}
        THEN IF acc # "OK" /\ fault = "chmod"
             THEN [ret |-> 0, file |-> file]
             ELSE [ret |-> 1, file |-> "rw"]
        ELSE IF acc # "ENOENT" THEN [ret |-> 0, file |-> file]
        ELSE IF fault = "opensrc" THEN [ret |-> 0, file |-> file]
        ELSE IF fault = "opendest" THEN [ret |-> 0, file |-> file]
        ELSE IF fault = "read" THEN [ret |-> 0, file |-> "absent"]
        ELSE IF fault = "chmod" THEN [ret |-> 0, file |-> "absent"]
        ELSE [ret |-> 1, file |-> "rw"]

\* ensure_entropy_file_exists (wifi.cpp): 0 or -1, and the file it leaves.
\* There is no test of errno after access: when access fails for another
\* reason the file is opened whatever its state, and the open of a file
\* without access fails.
ensure_entropy_file_exists(file, fault) ==
    LET acc == Access(file, fault)
    IN  IF acc \in {"OK", "EACCES"}
        THEN IF acc # "OK" /\ fault = "chmod"
             THEN [ret |-> -1, file |-> file]
             ELSE [ret |-> 0, file |-> "rw"]
        ELSE IF fault = "opendest" \/ file = "noaccess"
        THEN [ret |-> -1, file |-> file]
        ELSE IF fault = "write" THEN [ret |-> -1, file |-> "rw"]
        ELSE IF fault = "chmod" THEN [ret |-> -1, file |-> "absent"]
        ELSE [ret |-> 0, file |-> "rw"]

\* What is kept of a StartSupplicant call: what it returned, what
\* ensure_config_file_exists returned to it, whether it wrote ctl.start, how
\* many passes of the poll loop it made, and what the last pass read: the
\* status ("none": the property was not found, or there was no pass) and
\* whether the serial differed from the captured one.
NoStart == [called |-> FALSE, ret |-> FALSE, ensured |-> 1,
            ctlStarts |-> FALSE, polls |-> 0, seen |-> "none",
            changed |-> FALSE]

SupInit ==
    /\ cfgFile \in FileStates
    /\ p2pFile \in FileStates
    /\ entropyFile \in FileStates
    /\ ctlStarts = FALSE
    /\ spc = "idle"
    /\ count = 0
    /\ pi = FALSE
    /\ serial = 0
    /\ ensured = 1
    /\ slast = NoStart

\* No StartSupplicant call is made; the files are there.
SupIdle ==
    /\ cfgFile = "rw"
    /\ p2pFile = "rw"
    /\ entropyFile = "rw"
    /\ ctlStarts = FALSE
    /\ spc = "idle"
    /\ count = 0
    /\ pi = FALSE
    /\ serial = 0
    /\ ensured = 1
    /\ slast = NoStart

\* StartSupplicant returns.
StartReturn(res, ens, started, polls, seen, changed) ==
    /\ spc' = "idle"
    /\ slast' = [called |-> TRUE, ret |-> res, ensured |-> ens,
                 ctlStarts |-> started, polls |-> polls, seen |-> seen,
                 changed |-> changed]
    /\ ctlStarts' = FALSE
    /\ count' = 0
    /\ pi' = FALSE
    /\ serial' = 0
    /\ ensured' = 1

\* StartSupplicant, lines 129-133: the test of what
\* ensure_config_file_exists returned.
ConfigFileMissing(ret) == ret < 0

\* StartSupplicant, lines 118-164: from its entry to the first poll.
StartSupplicantBegin ==
    /\ spc = "idle"
    /\ IF svcStatus = "running"
       THEN /\ StartReturn(TRUE, 1, FALSE, 0, "none", FALSE)
            /\ UNCHANGED <<cfgFile, p2pFile, entropyFile>>
       ELSE \E f1 \in Faults \ {"write"}, f2 \in Faults \ {"write"},
               f3 \in Faults \ {"opensrc", "read"} :
              LET conf == ensure_config_file_exists(cfgFile, f1)
                  p2p == ensure_config_file_exists(p2pFile, f2)
                  entropy == ensure_entropy_file_exists(entropyFile, f3)
              IN  IF ConfigFileMissing(conf.ret)
                  THEN /\ StartReturn(FALSE, conf.ret, FALSE, 0, "none", FALSE)
                       /\ cfgFile' = conf.file
                       /\ UNCHANGED <<p2pFile, entropyFile>>
                  ELSE /\ cfgFile' = conf.file
                       /\ p2pFile' = p2p.file
                       /\ entropyFile' = entropy.file
                       /\ ensured' = conf.ret
                       /\ pi' = (svcStatus # "absent")
                       /\ serial' = (IF svcStatus # "absent" THEN svcSerial
                                     ELSE 0)
                       /\ ctlStarts' = TRUE
                       /\ count' = StartPollCount
                       /\ spc' = "polling"
                       /\ slast' = NoStart
    /\ UNCHANGED <<svcVars, outsideSupplicant>>

\* StartSupplicant, line 175: the property's serial is not the captured one.
SerialIgnored == TRUE
SerialChanged == svcSerial # serial

\* StartSupplicant, lines 166-186: one pass of the poll loop, or the end of it.
StartSupplicantPoll ==
    /\ spc = "polling"
    /\ LET found == pi \/ svcStatus # "absent"
           polls == StartPollCount - count + 1
           seen == IF found THEN svcStatus ELSE "none"
           changed == found /\ svcSerial # serial
       IN  IF ~(count > 0)
           THEN StartReturn(FALSE, ensured, ctlStarts, polls - 1, slast.seen,
                            slast.changed)
           ELSE IF found /\ SerialChanged /\ svcStatus = "running"
           THEN StartReturn(TRUE, ensured, ctlStarts, polls, seen, changed)
           ELSE IF found /\ SerialChanged /\ svcStatus = "stopped"
           THEN StartReturn(FALSE, ensured, ctlStarts, polls, seen, changed)
           ELSE /\ count' = count - 1
                /\ pi' = found
                /\ slast' = [slast EXCEPT !.seen = seen, !.changed = changed]
                /\ UNCHANGED <<spc, ctlStarts, serial, ensured>>
    /\ UNCHANGED <<cfgFile, p2pFile, entropyFile, svcVars, outsideSupplicant>>

SupNext ==
    \/ StartSupplicantBegin
    \/ StartSupplicantPoll
    \/ ServiceStatusChange


(***************************************************************************)
(*                 The font cache (HbFontCache.cpp)                        *)
(*                                                                         *)
(* LruCache is not among the sources: its operations are written from the  *)
(* specification's description of it, a fixed-capacity cache that evicts   *)
(* the least recently accessed entry when full.  mCache lists the keys     *)
(* from the least recently accessed to the most recently accessed.        *)
(***************************************************************************)
\* "static const size_t kMaxEntries = 100".
kMaxEntries == 100
\* The unique ids MinikinFont objects get: 1..NumFontIds.
NumFontIds == 102
\* The fonts that are asked for again, or purged one by one.
NumOldFonts == 2
\* How many gets of an old font and purges, taken together, a behaviour makes.
MaxExtraOps == 1

OldFonts == 1..NumOldFonts

SeqRange(q) == {q[i] : i \in DOMAIN q}
SeqWithout(q, k) == SelectSeq(q, LAMBDA x : x # k)

\* LruCache::get: a hit makes the entry the most recently accessed one.
LruGet(c, k) ==
    [hit |-> k \in SeqRange(c),
     cache |-> IF k \in SeqRange(c) THEN Append(SeqWithout(c, k), k) ELSE c]

\* LruCache::put of a key that is not in the cache: a full cache first
\* drops its least recently accessed entry (evicted: its key, or 0).
LruPut(c, k) ==
    IF Len(c) >= kMaxEntries
    THEN [cache |-> Append(Tail(c), k), evicted |-> Head(c)]
    ELSE [cache |-> Append(c, k), evicted |-> 0]

\* LruCache::remove and LruCache::clear.
LruRemove(c, k) == SeqWithout(c, k)
LruClear == <<>>

\* HbFontCache::get, put, remove, clear.
HbFontCachePeek(c, fontId) == [hit |-> fontId \in SeqRange(c), cache |-> c]
HbFontCacheGet(c, fontId) == LruGet(c, fontId)
HbFontCachePut(c, fontId) == LruPut(c, fontId)
HbFontCacheRemove(c, fontId) == LruRemove(c, fontId)
HbFontCacheClear == LruClear

NoFontOp ==
    [op |-> "none", id |-> 0, hit |-> FALSE, full |-> FALSE, evicted |-> 0,
     oldest |-> 0]

\* getFontCacheLocked creates an empty cache on first use.
FcInit ==
    /\ mCache = <<>>
    /\ fcNext = 1
    /\ fcAccess = <<>>
    /\ fcReaccesses = 0
    /\ fcPurges = 0
    /\ fcLast = NoFontOp

\* Of the fonts in the cache, the one whose last access is the oldest (0 for
\* an empty cache): read off the order of the accesses made, not off the
\* cache.
OldestAccessed ==
    LET resident == SelectSeq(fcAccess, LAMBDA x : x \in SeqRange(mCache))
    IN  IF resident = <<>> THEN 0 ELSE Head(resident)

\* getHbFontLocked(minikinFont) for a font whose unique id is fontId.
GetHbFontOf(fontId) ==
    LET got == HbFontCacheGet(mCache, fontId)
        put == HbFontCachePut(got.cache, fontId)
    IN  /\ mCache' = (IF got.hit THEN got.cache ELSE put.cache)
        /\ fcAccess' = Append(SeqWithout(fcAccess, fontId), fontId)
        /\ fcLast' = [op |-> "get", id |-> fontId, hit |-> got.hit,
                      full |-> Len(mCache) >= kMaxEntries,
                      evicted |-> IF got.hit THEN 0 ELSE put.evicted,
                      oldest |-> OldestAccessed]

\* getHbFontLocked for a font that has not been asked for before.
GetNewFont ==
    /\ fcNext <= NumFontIds
    /\ GetHbFontOf(fcNext)
    /\ fcNext' = fcNext + 1
    /\ UNCHANGED <<fcReaccesses, fcPurges>>
    /\ UNCHANGED outsideFontCache

\* getHbFontLocked for a font that was asked for before.
GetOldFont ==
    /\ fcReaccesses + fcPurges < MaxExtraOps
    /\ \E fontId \in OldFonts :
         /\ fontId < fcNext
         /\ GetHbFontOf(fontId)
    /\ fcReaccesses' = fcReaccesses + 1
    /\ UNCHANGED <<fcNext, fcPurges>>
    /\ UNCHANGED outsideFontCache

\* getHbFontLocked(nullptr): the shared null-face font, the cache is not used.
GetNullFont ==
    /\ fcLast.op # "null"
    /\ fcLast' = [NoFontOp EXCEPT !.op = "null"]
    /\ UNCHANGED <<mCache, fcNext, fcAccess, fcReaccesses, fcPurges>>
    /\ UNCHANGED outsideFontCache

\* purgeHbFontLocked.
PurgeHbFont ==
    /\ fcReaccesses + fcPurges < MaxExtraOps
    /\ \E fontId \in OldFonts :
         /\ fontId < fcNext
         /\ mCache' = HbFontCacheRemove(mCache, fontId)
         /\ fcLast' = [NoFontOp EXCEPT !.op = "purge", !.id = fontId]
    /\ fcPurges' = fcPurges + 1
    /\ UNCHANGED <<fcNext, fcAccess, fcReaccesses>>
    /\ UNCHANGED outsideFontCache

\* purgeHbFontCacheLocked.
PurgeHbFontCache ==
    /\ fcReaccesses + fcPurges < MaxExtraOps
    /\ mCache' = HbFontCacheClear
    /\ fcLast' = [NoFontOp EXCEPT !.op = "purgeAll"]
    /\ fcPurges' = fcPurges + 1
    /\ UNCHANGED <<fcNext, fcAccess, fcReaccesses>>
    /\ UNCHANGED outsideFontCache

FcNext ==
    \/ GetNewFont
    \/ GetOldFont
    \/ GetNullFont
    \/ PurgeHbFont
    \/ PurgeHbFontCache


(***************************************************************************)
(*        Cue lookup of a video track (MatroskaExtractor.cpp)              *)
(***************************************************************************)
\* A file has at most MaxCues cue points, at times 0..MaxCueTime.
MaxCues == 3
MaxCueTime == 3

CueTimes == 0..MaxCueTime
\* seek() handles seekTimeUs <= 0 by a rewind, without the cues.
SeekTimes == 1..(MaxCueTime + 1)

\* mCuePoints.itemAt(i)->GetTime(): the vector is indexed from 0.
CueTimeAt(cues, i) == cues[i + 1]

\* The loop "while (lo < hi)" of TrackInfo::find: the value of lo after it.
RECURSIVE BinarySearch(_, _, _, _)
BinarySearch(cues, timeNs, lo, hi) ==
    IF lo < hi
    THEN LET mid == lo + (hi - lo) \div 2
         IN  IF CueTimeAt(cues, mid) <= timeNs
             THEN BinarySearch(cues, timeNs, mid + 1, hi)
             ELSE BinarySearch(cues, timeNs, lo, mid)
    ELSE lo

NullCue == [found |-> FALSE, index |-> 0]
FoundCue(i) == [found |-> TRUE, index |-> i]

\* TrackInfo::find(timeNs): the index of the cue point whose position it
\* returns, or NULL.  Every cached cue point has a position for the track
\* (seek() caches only those), so cp->Find(track) is the cue's own position.
\* FindBySearchOnly is find without the test of the first cue point (lines
\* 178-182).
FindBySearchOnly(cues, timeNs) ==
    IF cues = <<>> THEN NullCue
    ELSE LET lo == BinarySearch(cues, timeNs, 0, Len(cues))
         IN  IF lo = 0 THEN NullCue
             ELSE IF CueTimeAt(cues, lo - 1) > timeNs THEN NullCue
             ELSE FoundCue(lo - 1)
TrackInfoFind(cues, timeNs) ==
    IF cues = <<>> THEN NullCue
    ELSE IF timeNs <= CueTimeAt(cues, 0) THEN FoundCue(0)
    ELSE LET lo == BinarySearch(cues, timeNs, 0, Len(cues))
         IN  IF lo = 0 THEN NullCue
             ELSE IF CueTimeAt(cues, lo - 1) > timeNs THEN NullCue
             ELSE FoundCue(lo - 1)

NoSeek == [called |-> FALSE, timeNs |-> 0, found |-> FALSE, index |-> 0]

CueInit ==
    /\ mCuePoints = <<>>
    /\ doneParsing = FALSE
    /\ cueLast = NoSeek

\* The cue points one seek can load, as the file gives them: the loop stops
\* at the first one that is not before the seek time, or at the end of the
\* file's cue points.
RECURSIVE CueSeqs(_)
CueSeqs(n) ==
    IF n = 0 THEN {<<>>}
    ELSE LET shorter == CueSeqs(n - 1)
         IN  shorter \cup {Append(q, t) : q \in {r \in shorter : Len(r) = n - 1},
                                          t \in CueTimes}
LoadedBy(timeNs) ==
    {q \in CueSeqs(MaxCues - Len(mCuePoints)) :
        \A i \in 1..(Len(q) - 1) : q[i] < timeNs}

\* BlockIterator::seek(seekTimeUs) on a video track of a file with cues:
\* loads and caches cue points, then looks the time up with TrackInfo::find.
Seek ==
    \E timeNs \in SeekTimes :
      \E loaded \in (IF doneParsing THEN {<<>>} ELSE LoadedBy(timeNs)) :
        \E done \in BOOLEAN :
          /\ doneParsing => done
          /\ (loaded = <<>> \/ loaded[Len(loaded)] < timeNs) => done
          /\ mCuePoints' = mCuePoints \o loaded
          /\ doneParsing' = done
          /\ LET res == TrackInfoFind(mCuePoints', timeNs)
             IN  cueLast' = [called |-> TRUE, timeNs |-> timeNs,
                             found |-> res.found, index |-> res.index]
          /\ UNCHANGED outsideCues

CueNext == Seek


(***************************************************************************)
(*     AVC frame reassembly (MatroskaSource::read, MatroskaExtractor.cpp)  *)
(***************************************************************************)
\* A frame has at most MaxFrameLen bytes, each one of FrameBytes.
MaxFrameLen == 6
\* With these bytes a length field stays below 2^31, so no sum of offsets
\* and lengths wraps around in size_t.
FrameBytes == {0, 1, 2, 127}

BoundedSeqs(S, n) == UNION {[1..k -> S] : k \in 0..n}

\* srcPtr[i], indexed from 0.
ByteAt(src, i) == src[i + 1]

\* The switch on mNALSizeLen: srcPtr[srcOffset], U16_AT, U24_AT, U32_AT.
NALSizeAt(src, srcOffset, len) ==
    IF len = 1 THEN ByteAt(src, srcOffset)
    ELSE IF len = 2
    THEN ByteAt(src, srcOffset) * 256 + ByteAt(src, srcOffset + 1)
    ELSE IF len = 3
    THEN ByteAt(src, srcOffset) * 65536 + ByteAt(src, srcOffset + 1) * 256
         + ByteAt(src, srcOffset + 2)
    ELSE ByteAt(src, srcOffset) * 16777216 + ByteAt(src, srcOffset + 1) * 65536
         + ByteAt(src, srcOffset + 2) * 256 + ByteAt(src, srcOffset + 3)

StartCode == <<0, 0, 0, 1>>

\* "srcOffset + mNALSizeLen + NALsize <= srcOffset + mNALSizeLen".
NALSizeOverflows(srcOffset, len, NALsize) ==
    srcOffset + len + NALsize < srcOffset + len
NALSizeRejected(srcOffset, len, NALsize) ==
    srcOffset + len + NALsize <= srcOffset + len

\* One pass of the loop "while (srcOffset + mNALSizeLen <= srcSize)": whether
\* it returned ERROR_MALFORMED, the offsets it ended with and, in pass 1, the
\* bytes written to dstPtr (they are written from offset 0 on, without gaps;
\* when the input buffer is reused the fragment's bytes are the ones already
\* in place).
RECURSIVE NALPass(_, _, _, _, _, _)
NALPass(src, len, pass, srcOffset, dstOffset, dst) ==
    IF srcOffset + len <= Len(src)
    THEN LET NALsize == NALSizeAt(src, srcOffset, len)
         IN  IF NALSizeRejected(srcOffset, len, NALsize)
             THEN [malformed |-> TRUE, srcOffset |-> srcOffset,
                   dstOffset |-> dstOffset, dst |-> dst]
             ELSE IF srcOffset + len + NALsize > Len(src)
             THEN [malformed |-> FALSE, srcOffset |-> srcOffset,
                   dstOffset |-> dstOffset, dst |-> dst]
             ELSE NALPass(src, len, pass, srcOffset + len + NALsize,
                          dstOffset + 4 + NALsize,
                          IF pass = 1
                          THEN dst \o StartCode
                                   \o SubSeq(src, srcOffset + len + 1,
                                             srcOffset + len + NALsize)
                          ELSE dst)
    ELSE [malformed |-> FALSE, srcOffset |-> srcOffset,
          dstOffset |-> dstOffset, dst |-> dst]

Malformed == [called |-> TRUE, status |-> "ERROR_MALFORMED", data |-> <<>>]
ReadOK(bytes) == [called |-> TRUE, status |-> "OK", data |-> bytes]

\* The part of MatroskaSource::read after a frame was taken from
\* mPendingFrames, for an AVC track.
ReadFrame(frame, len) ==
    IF len = 0 THEN ReadOK(frame)
    ELSE LET pass0 == NALPass(frame, len, 0, 0, 0, <<>>)
             pass1 == NALPass(frame, len, 1, 0, 0, <<>>)
         IN  IF pass0.malformed \/ pass0.srcOffset < Len(frame)
             THEN Malformed
             ELSE IF pass1.malformed \/ pass1.srcOffset < Len(frame)
             THEN Malformed
             ELSE ReadOK(pass1.dst)

NoRead == [called |-> FALSE, status |-> "OK", data |-> <<>>]

\* Before read(): any frame of the file, any NAL-length size.
NalInit ==
    /\ nalFrame \in BoundedSeqs(FrameBytes, MaxFrameLen)
    /\ mNALSizeLen \in 0..4
    /\ nalOut = NoRead

NalIdle ==
    /\ nalFrame = <<>>
    /\ mNALSizeLen = 0
    /\ nalOut = NoRead

MatroskaSourceRead ==
    /\ ~nalOut.called
    /\ nalOut' = ReadFrame(nalFrame, mNALSizeLen)
    /\ UNCHANGED <<nalFrame, mNALSizeLen>>
    /\ UNCHANGED outsideNal

NalNext == MatroskaSourceRead


(***************************************************************************)
(*     Vorbis codec-private parsing (addVorbisCodecInfo)                   *)
(***************************************************************************)
\* Header lengths go up to MaxLaceRuns * 255 + 1; codec-private bytes that
\* are not built from headers have at most MaxPrivateLen bytes.
MaxLaceRuns == 2
MaxPrivateLen == 4
PrivateBytes == {0, 1, 2, 3, 5, 255}

\* The byte the length loops test for ("== 0xff") and add ("+= 0xff").
LaceByte == 255

\* codecPrivate[i], indexed from 0.  Index codecPrivateSize is one past the
\* end of the buffer: the read gives whatever byte lies there (past).
PrivateAt(cp, past, i) == IF i < Len(cp) THEN cp[i + 1] ELSE past

\* A loop "while (offset < codecPrivateSize && codecPrivate[offset] == 0xff)":
\* the offset and the length after it.  The tests against SIZE_MAX are left
\* out: they are false for every length below SIZE_MAX - 0xff.
RECURSIVE LaceLoop(_, _, _)
LaceLoop(cp, offset, len) ==
    IF offset < Len(cp) /\ cp[offset + 1] = LaceByte
    THEN LaceLoop(cp, offset + 1, len + LaceByte)
    ELSE [offset |-> offset, len |-> len]

\* "len1 += codecPrivate[offset++]": the length after a loop and its last byte.
LastByteOnly(run, last) == last
LacedLength(run, last) == run.len + last

NoBlob == [set |-> FALSE, data |-> <<>>]
Blob(bytes) == [set |-> TRUE, data |-> bytes]
VorbisMalformed(info) ==
    [called |-> TRUE, status |-> "ERROR_MALFORMED", info |-> info,
     books |-> NoBlob]

\* addVorbisCodecInfo(meta, codecPrivate, codecPrivateSize): the status and
\* the kKeyVorbisInfo and kKeyVorbisBooks entries of meta.
AddVorbisCodecInfo(cp, past) ==
    IF Len(cp) < 1 THEN VorbisMalformed(NoBlob)
    ELSE IF cp[1] # 2 THEN VorbisMalformed(NoBlob)
    ELSE
    LET l1 == LaceLoop(cp, 1, 0)
    IN  IF l1.offset >= Len(cp) THEN VorbisMalformed(NoBlob)
        ELSE
        LET len1 == LacedLength(l1, cp[l1.offset + 1])
            l2 == LaceLoop(cp, l1.offset + 1, 0)
        IN  IF l2.offset >= Len(cp) THEN VorbisMalformed(NoBlob)
            ELSE
            LET len2 == LacedLength(l2, cp[l2.offset + 1])
                offset == l2.offset + 1
            IN  IF Len(cp) < offset + len1 + len2 THEN VorbisMalformed(NoBlob)
                ELSE IF PrivateAt(cp, past, offset) # 1
                THEN VorbisMalformed(NoBlob)
                ELSE
                LET info == Blob(SubSeq(cp, offset + 1, offset + len1))
                IN  IF PrivateAt(cp, past, offset + len1) # 3
                    THEN VorbisMalformed(info)
                    ELSE IF PrivateAt(cp, past, offset + len1 + len2) # 5
                    THEN VorbisMalformed(info)
                    ELSE [called |-> TRUE, status |-> "OK", info |-> info,
                          books |-> Blob(SubSeq(cp, offset + len1 + len2 + 1,
                                                Len(cp)))]

\* The highest index of codecPrivate (from 0) that addVorbisCodecInfo reads
\* on the same path; NoIndex when it reads nothing.  The loops read every
\* index up to the one they stop at, as long as it is below the size; the
\* copy setData makes of kKeyVorbisInfo stays below offset + len1, and the
\* copy it makes of kKeyVorbisBooks, codecPrivateSize - offset bytes from
\* the last offset on, ends at the last index of the buffer.
NoIndex == -1
HighestRead(cp, past) ==
    IF Len(cp) < 1 THEN NoIndex
    ELSE IF cp[1] # 2 THEN 0
    ELSE
    LET l1 == LaceLoop(cp, 1, 0)
    IN  IF l1.offset >= Len(cp) THEN Len(cp) - 1
        ELSE
        LET len1 == LacedLength(l1, cp[l1.offset + 1])
            l2 == LaceLoop(cp, l1.offset + 1, 0)
        IN  IF l2.offset >= Len(cp) THEN Len(cp) - 1
            ELSE
            LET len2 == LacedLength(l2, cp[l2.offset + 1])
                offset == l2.offset + 1
            IN  IF Len(cp) < offset + len1 + len2 THEN l2.offset
                ELSE IF PrivateAt(cp, past, offset) # 1 THEN offset
                ELSE IF PrivateAt(cp, past, offset + len1) # 3
                THEN offset + len1
                ELSE IF PrivateAt(cp, past, offset + len1 + len2) # 5
                THEN offset + len1 + len2
                ELSE IF offset + len1 + len2 < Len(cp) - 1
                THEN Len(cp) - 1
                ELSE offset + len1 + len2

\* Xiph lacing of a length: 0xff for every full 255, then the rest.
RECURSIVE XiphLace(_)
XiphLace(n) ==
    IF n >= LaceByte THEN <<LaceByte>> \o XiphLace(n - LaceByte) ELSE <<n>>

\* The codec-private bytes a muxer writes for three Vorbis headers.
VorbisPrivate(ident, comment, setup) ==
    <<2>> \o XiphLace(Len(ident)) \o XiphLace(Len(comment))
          \o ident \o comment \o setup

\* Headers: a tag byte, then bytes that are all the same.
HeaderLens == {1, 2} \cup {LaceByte * k + d : k \in 1..MaxLaceRuns, d \in {0, 1}}
Header(tag, len, fill) == <<tag>> \o [i \in 1..(len - 1) |-> fill]
Headers(tag, lens) == {Header(tag, len, fill) : len \in lens, fill \in {0, LaceByte}}

NoParts == [built |-> FALSE, ident |-> <<>>, comment |-> <<>>, setup |-> <<>>]
NoVorbis == [called |-> FALSE, status |-> "OK", info |-> NoBlob, books |-> NoBlob]

\* Before the call: codec-private bytes built from three headers, or any
\* short byte string.
VorbisInit ==
    /\ \/ \E ident \in Headers(1, HeaderLens),
             comment \in Headers(3, {1, 2, LaceByte}),
             setup \in Headers(5, {1, 2}) :
            /\ vorbisParts = [built |-> TRUE, ident |-> ident,
                              comment |-> comment, setup |-> setup]
            /\ codecPrivate = VorbisPrivate(ident, comment, setup)
       \/ /\ vorbisParts = NoParts
          /\ codecPrivate \in BoundedSeqs(PrivateBytes, MaxPrivateLen)
    /\ vorbisOut = NoVorbis
    /\ vorbisRead = NoIndex

VorbisIdle ==
    /\ vorbisParts = NoParts
    /\ codecPrivate = <<>>
    /\ vorbisOut = NoVorbis
    /\ vorbisRead = NoIndex

AddVorbisCodecInfoCall ==
    /\ ~vorbisOut.called
    /\ \E past \in PrivateBytes :
         /\ vorbisOut' = AddVorbisCodecInfo(codecPrivate, past)
         /\ vorbisRead' = HighestRead(codecPrivate, past)
    /\ UNCHANGED <<codecPrivate, vorbisParts>>
    /\ UNCHANGED outsideVorbis

VorbisNext == AddVorbisCodecInfoCall


(***************************************************************************)
(*                 The word breaker (WordBreaker.cpp)                      *)
(*                                                                         *)
(* The ICU break iterator is outside the sources: it is a set of offsets,  *)
(* any set that contains the end of the text, with a current position.     *)
(* Offsets count characters from 0, as in the code; mText[i] of the code   *)
(* is mText[i + 1] here.                                                   *)
(***************************************************************************)
\* Texts have at most MaxTextLen characters of WbChars, or are ExampleText.
MaxTextLen == 4
CHAR_SOFT_HYPHEN == "SHY"
WbChars == {"a", " ", CHAR_SOFT_HYPHEN, "@", ".", ":", "/", "%"}
\* "write to a.b@c.com today", every letter written as a.
ExampleText ==
    <<"a", "a", "a", "a", "a", " ", "a", "a", " ",
      "a", ".", "a", "@", "a", ".", "a", "a", "a", " ",
      "a", "a", "a", "a", "a">>
\* ICU's line break offsets of it: after each space, and the end.
ExampleBoundaries == {6, 9, 19, 24}

\* icu::BreakIterator::DONE.
DONE == -1

CharAt(text, i) == text[i + 1]

\* "' ' < c && c <= 0x007E": the characters the scan goes over.
Scanned(c) == c \in {"a", "@", ".", ":", "/", "%"}

\* The loop of next() that scans for an email address or URL from offset i:
\* where it stops and in which ScanState.
RECURSIVE ScanLoop(_, _, _)
ScanLoop(text, i, state) ==
    IF i < Len(text) /\ Scanned(CharAt(text, i))
    THEN LET c == CharAt(text, i)
         IN  ScanLoop(text, i + 1,
                 IF state = "START" /\ c = "@" THEN "SAW_AT"
                 ELSE IF state = "START" /\ c = ":" THEN "SAW_COLON"
                 ELSE IF state = "SAW_COLON"
                 THEN (IF c = "/" THEN "SAW_COLON_SLASH" ELSE "START")
                 ELSE IF state = "SAW_COLON_SLASH"
                 THEN (IF c = "/" THEN "SAW_COLON_SLASH_SLASH" ELSE "START")
                 ELSE state)
    ELSE [i |-> i, state |-> state]

\* mBreakIterator->following(offset), which is also next() from position
\* offset: the first boundary after offset, or DONE.
Following(bounds, offset) ==
    IF \E b \in bounds : b > offset
    THEN CHOOSE b \in bounds : b > offset /\ \A o \in bounds : o > offset => b <= o
    ELSE DONE

breakAfter(c) == c \in {":", "=", "&"}
breakBefore(c) == c \in {"~", ".", ",", "-", "_", "?", "#", "%", "=", "&"}

\* The loop of next() inside an email address or URL: the offset it ends at.
RECURSIVE EmailLoop(_, _, _, _, _)
EmailLoop(text, last, scanOffset, i, lastChar) ==
    IF ~(i < scanOffset) THEN i
    ELSE IF breakAfter(lastChar) THEN i
    ELSE IF lastChar = "/" /\ i >= last + 2 /\ CharAt(text, i - 2) = "/" THEN i
    ELSE LET thisChar == CharAt(text, i)
         IN  IF lastChar # "-" /\ breakBefore(thisChar) THEN i
             ELSE IF /\ lastChar # "-"
                     /\ thisChar = "/" /\ lastChar # "/"
                     /\ ~(i + 1 < scanOffset /\ CharAt(text, i + 1) = "/")
             THEN i
             ELSE EmailLoop(text, last, scanOffset, i + 1, thisChar)

\* u_getIntPropertyValue(c, UCHAR_LINE_BREAK) of the characters of WbChars.
LineBreakClass(c) ==
    IF c \in {"a", "@"} THEN "U_LB_ALPHABETIC"
    ELSE IF c = "%" THEN "U_LB_POSTFIX_NUMERIC"
    ELSE IF c = " " THEN "U_LB_SPACE"
    ELSE IF c = CHAR_SOFT_HYPHEN THEN "U_LB_BREAK_AFTER"
    ELSE IF c = "/" THEN "U_LB_BREAK_SYMBOLS"
    ELSE "U_LB_INFIX_NUMERIC"

\* "if (codePoint == CHAR_SOFT_HYPHEN) return false".
NoSoftHyphenRule(codePoint) == FALSE
AfterSoftHyphen(codePoint) == codePoint = CHAR_SOFT_HYPHEN

\* isBreakValid(buf, bufEnd, i) for 0 < i < bufEnd.  WbChars has no Myanmar
\* virama, no zero width joiner and no emoji: those rules accept.
isBreakValid(buf, i) ==
    LET codePoint == CharAt(buf, i - 1)
        next_codepoint == CharAt(buf, i)
    IN  IF AfterSoftHyphen(codePoint) THEN FALSE
        ELSE IF /\ LineBreakClass(codePoint)
                     \in {"U_LB_ALPHABETIC", "U_LB_HEBREW_LETTER"}
                /\ LineBreakClass(next_codepoint)
                     \in {"U_LB_PREFIX_NUMERIC", "U_LB_POSTFIX_NUMERIC"}
        THEN FALSE
        ELSE TRUE

\* The do-while loop of next(): the iterator's next boundary after offset
\* from, again while it is neither DONE nor the end of the text and
\* isBreakValid refuses it.
RECURSIVE IcuLoop(_, _, _)
IcuLoop(text, bounds, from) ==
    LET result == Following(bounds, from)
    IN  IF result # DONE /\ result # Len(text) /\ ~isBreakValid(text, result)
        THEN IcuLoop(text, bounds, result)
        ELSE result

NoRun == [start |-> 0, end |-> 0, recognised |-> FALSE]
NoNext == [called |-> FALSE, ret |-> 0, email |-> FALSE, scanned |-> FALSE]

\* setText(data, size) was called.
TextSet(text, bounds) ==
    /\ mText = text
    /\ mTextIsNull = FALSE
    /\ icuBoundaries = bounds
    /\ icuPosition = 0
    /\ mLast = 0
    /\ mCurrent = 0
    /\ mScanOffset = 0
    /\ mInEmailOrUrl = FALSE
    /\ mIteratorWasReset = FALSE
    /\ wbRun = NoRun
    /\ wbLast = NoNext

BoundarySets(text) ==
    IF text = <<>> THEN {{}}
    ELSE {inner \cup {Len(text)} : inner \in SUBSET (1..(Len(text) - 1))}

WbInit ==
    \/ \E text \in BoundedSeqs(WbChars, MaxTextLen) :
         \E bounds \in BoundarySets(text) : TextSet(text, bounds)
    \/ TextSet(ExampleText, ExampleBoundaries)

WbIdle == TextSet(<<>>, {})

\* WordBreaker::next().  Callers stop at DONE, and call setText before a
\* next() that follows finish(): it would read through the null mText.
WordBreakerNext ==
    /\ mCurrent # DONE
    /\ ~mTextIsNull
    /\ LET last == mCurrent
           rescan == last >= mScanOffset
           scan == ScanLoop(mText, last, "START")
           found == scan.state \in {"SAW_AT", "SAW_COLON_SLASH_SLASH"}
           scanEnd == IF found /\ scan.i \notin icuBoundaries
                      THEN Following(icuBoundaries, scan.i)
                      ELSE scan.i
           inEmailOrUrl == IF rescan THEN found ELSE mInEmailOrUrl
           scanOffset == IF rescan THEN scanEnd ELSE mScanOffset
           wasReset == IF rescan /\ found THEN TRUE ELSE mIteratorWasReset
           position == IF rescan /\ found THEN scanEnd ELSE icuPosition
       IN  /\ mLast' = last
           /\ mScanOffset' = scanOffset
           /\ mInEmailOrUrl' = inEmailOrUrl
           /\ wbRun' = IF rescan
                       THEN [start |-> last, end |-> scanEnd, recognised |-> found]
                       ELSE wbRun
           /\ IF inEmailOrUrl
              THEN /\ mCurrent' = EmailLoop(mText, last, scanOffset, last + 1,
                                            CharAt(mText, last))
                   /\ mIteratorWasReset' = wasReset
                   /\ icuPosition' = position
              ELSE LET result == IcuLoop(mText, icuBoundaries,
                                         IF wasReset THEN mCurrent ELSE position)
                   IN  /\ mCurrent' = result
                       /\ mIteratorWasReset' = FALSE
                       /\ icuPosition' = IF result = DONE THEN Len(mText) ELSE result
           /\ wbLast' = [called |-> TRUE, ret |-> mCurrent', email |-> inEmailOrUrl,
                         scanned |-> rescan]
    /\ UNCHANGED <<mText, mTextIsNull, icuBoundaries>>
    /\ UNCHANGED outsideWordBreaker

\* WordBreaker::setLocale(locale), with the locale the iterator was made
\* for: the new iterator proposes the same offsets.  It is given the text
\* again when there is one, and stands at its beginning.
WordBreakerSetLocale ==
    /\ icuPosition' = 0
    /\ mIteratorWasReset' = TRUE
    /\ UNCHANGED <<mText, mTextIsNull, icuBoundaries, mLast, mCurrent,
                   mScanOffset, mInEmailOrUrl, wbRun, wbLast>>
    /\ UNCHANGED outsideWordBreaker

\* WordBreaker::finish().  (setText after it leaves a state of WbInit.)
WordBreakerFinish ==
    /\ mTextIsNull' = TRUE
    /\ UNCHANGED <<mText, icuBoundaries, icuPosition, mLast, mCurrent,
                   mScanOffset, mInEmailOrUrl, mIteratorWasReset, wbRun,
                   wbLast>>
    /\ UNCHANGED outsideWordBreaker

\* WordBreaker::breakBadness().
badnessInRun == IF mInEmailOrUrl THEN 1 ELSE 0
breakBadness == IF mInEmailOrUrl /\ mCurrent < mScanOffset THEN 1 ELSE 0

WbNext ==
    \/ WordBreakerNext
    \/ WordBreakerSetLocale
    \/ WordBreakerFinish


(***************************************************************************)
(*   Type and constant fusion (RSSPIRVWriter.cpp, LinkerModule.cpp)        *)
(*                                                                         *)
(* A line is a sequence of characters.  An instruction name is written as  *)
(* one character ("OpTypeInt"): it holds no "%", "=" or blank.             *)
(***************************************************************************)
\* A module has at most MaxModuleLines lines.
MaxModuleLines == 4
\* The identifiers of a module: one is the beginning of another.
ModuleIds == {<<"%", "a">>, <<"%", "b">>, <<"%", "a", "b">>, <<"%", "c">>}

TypeIntLine(x) == x \o <<" ", "=", " ", "OpTypeInt">>
TypePointerLine(x, y) == x \o <<" ", "=", " ", "OpTypePointer", " ">> \o y
StoreLine(y, z) == <<"OpStore", " ">> \o y \o <<" ">> \o z
ModuleLines ==
    {TypeIntLine(x) : x \in ModuleIds}
    \cup {TypePointerLine(x, y) : x \in ModuleIds, y \in ModuleIds}
    \cup {StoreLine(y, z) : y \in ModuleIds, z \in ModuleIds}

\* std::string::npos.
NPos == -1
IsSpace(c) == c = " "

\* StringRef::find(pat, from), positions from 0.
Occurs(s, pat, p) ==
    p + Len(pat) <= Len(s) /\ SubSeq(s, p + 1, p + Len(pat)) = pat
StrFind(s, pat, from) ==
    IF \E p \in from..Len(s) : Occurs(s, pat, p)
    THEN CHOOSE p \in from..Len(s) :
            Occurs(s, pat, p) /\ \A q \in from..(p - 1) : ~Occurs(s, pat, q)
    ELSE NPos

\* std::string::replace(pos, n, new).
StrReplace(s, pos, n, new) ==
    SubSeq(s, 1, pos) \o new \o SubSeq(s, pos + n + 1, Len(s))

\* StringRef::trim().
RECURSIVE StrTrim(_)
StrTrim(s) ==
    IF s # <<>> /\ IsSpace(Head(s)) THEN StrTrim(Tail(s))
    ELSE IF s # <<>> /\ IsSpace(s[Len(s)]) THEN StrTrim(SubSeq(s, 1, Len(s) - 1))
    ELSE s

\* GetFirstId(S, StartPos, EndPos).
GetFirstId(s, startPos) ==
    LET pos == StrFind(s, <<"%">>, startPos)
    IN  IF pos = NPos THEN [found |-> FALSE, id |-> <<>>, endPos |-> startPos]
        ELSE LET ends == {e \in (pos + 1)..Len(s) : e = Len(s) \/ IsSpace(s[e + 1])}
                 endPos == CHOOSE e \in ends : \A o \in ends : e <= o
             IN  [found |-> TRUE, id |-> SubSeq(s, pos + 1, endPos),
                  endPos |-> endPos]

\* SPIRVLine::getIdentifiers(Out, StartPos).  (res is bound by a set, and so
\* worked out once for each position.)
RECURSIVE getIdentifiers(_, _)
getIdentifiers(s, startPos) ==
    CHOOSE out \in
        {IF res.found THEN <<res.id>> \o getIdentifiers(s, res.endPos)
         ELSE <<>> : res \in {GetFirstId(s, startPos)}} : TRUE

\* SPIRVLine::contains("=").
IsAssignment(line) == StrFind(line, <<"=">>, 0) # NPos
\* L.contains("OpType") || L.contains("OpConstant").
IsTypeOrConstant(line) ==
    \E i \in DOMAIN line : line[i] \in {"OpTypeInt", "OpTypePointer", "OpConstant"}

\* SPIRVLine::getRHS() of a line that contains "=".
getRHS(line) ==
    StrTrim(SubSeq(line, StrFind(line, <<"=">>, 0) + 2, Len(line)))
getRHSIdentifiers(line) ==
    CHOOSE out \in {getIdentifiers(rhs, 0) : rhs \in {getRHS(line)}} : TRUE
\* SPIRVLine::getLHSIdentifier() of a line that contains "=".
getLHSIdentifier(line) == GetFirstId(line, 0).id

\* SPIRVLine::replaceId(Original, New): whether it replaced, and the line.
replaceId(line, original, new) ==
    LET pos == StrFind(line, original, 0)
        oneAfter == pos + Len(original)
    IN  IF pos = NPos THEN [res |-> FALSE, line |-> line]
        ELSE IF oneAfter < Len(line) /\ ~IsSpace(line[oneAfter + 1])
        THEN LET pos2 == StrFind(line, original, oneAfter)
             IN  IF pos2 = NPos THEN [res |-> FALSE, line |-> line]
                 ELSE [res |-> TRUE,
                       line |-> StrReplace(line, pos2, Len(original), new)]
        ELSE [res |-> TRUE, line |-> StrReplace(line, pos, Len(original), new)]

\* SPIRVLine::markAsEmpty(): the line "; <<empty>>".
EmptyLine == <<";", " ", "<<empty>>">>
\* SPIRVLine::hasCode().
hasCode(line) == StrTrim(line) # <<>> /\ Head(StrTrim(line)) # ";"

\* A StringMap as a set of <<key, value>> pairs; insert keeps an entry the
\* key already has.
MapHas(map, key) == \E e \in map : e[1] = key
MapGet(map, key) == (CHOOSE e \in map : e[1] = key)[2]
MapInsert(map, key, value) == IF MapHas(map, key) THEN map ELSE map \cup {<<key, value>>}

\* "for (auto &I : Ids) if (NameReps.count(I) != 0) L.replaceId(I, NameReps[I])".
RECURSIVE ReplaceIds(_, _, _)
ReplaceIds(line, ids, nameReps) ==
    IF ids = <<>> THEN line
    ELSE ReplaceIds(IF MapHas(nameReps, Head(ids))
                    THEN replaceId(line, Head(ids), MapGet(nameReps, Head(ids))).line
                    ELSE line,
                    Tail(ids), nameReps)

\* The loop of FuseTypesAndConstants over LM.lines(): the lines after it.
RECURSIVE FuseLines(_, _, _)
FuseLines(lines, typesAndConstDefs, nameReps) ==
    IF lines = <<>> THEN <<>>
    ELSE LET l == Head(lines)
         IN  IF ~IsAssignment(l)
             THEN <<l>> \o FuseLines(Tail(lines), typesAndConstDefs, nameReps)
             ELSE LET replaced == ReplaceIds(l, getRHSIdentifiers(l), nameReps)
                      lhs == getLHSIdentifier(replaced)
                      rhs == getRHS(replaced)
                  IN  IF ~IsTypeOrConstant(replaced)
                      THEN <<replaced>>
                           \o FuseLines(Tail(lines), typesAndConstDefs, nameReps)
                      ELSE IF MapHas(typesAndConstDefs, rhs)
                      THEN <<EmptyLine>>
                           \o FuseLines(Tail(lines), typesAndConstDefs,
                                        MapInsert(nameReps, lhs,
                                                  MapGet(typesAndConstDefs, rhs)))
                      ELSE <<replaced>>
                           \o FuseLines(Tail(lines),
                                        MapInsert(typesAndConstDefs, rhs, lhs),
                                        nameReps)

\* LinkerModule::removeNonCode() on a module whose first header lines are
\* the HeaderBlock: the lines of the HeaderBlock are left alone, the lines
\* without code of every other block go, and then every block that has no line
\* with code goes, the HeaderBlock too.
removeNonCode(lines, header) ==
    LET head == SubSeq(lines, 1, header)
        rest == SubSeq(lines, header + 1, Len(lines))
    IN  (IF \E i \in DOMAIN head : hasCode(head[i]) THEN head ELSE <<>>)
        \o SelectSeq(rest, hasCode)

\* The identifiers the lines of a module define.
DefinedIds(lines) ==
    {getLHSIdentifier(lines[i]) : i \in {k \in DOMAIN lines : IsAssignment(lines[k])}}

\* A line a valid module can go on with: it defines an identifier that is
\* not defined yet and uses only identifiers that are defined.
ValidNextLine(lines, l) ==
    LET used == IF IsAssignment(l) THEN getRHSIdentifiers(l)
                ELSE getIdentifiers(l, 0)
    IN  /\ IsAssignment(l) => getLHSIdentifier(l) \notin DefinedIds(lines)
        /\ \A k \in DOMAIN used : used[k] \in DefinedIds(lines)

NoFuse == [called |-> FALSE, lines |-> <<>>]

FuseInit ==
    /\ fuseModule = <<>>
    /\ fuseHeader = 0
    /\ fuseOut = NoFuse

\* Block::addLine: the linker reads one more line of the module, into the
\* HeaderBlock, the first block, as long as no later block has a line, or
\* into a later block.
AddLine ==
    /\ ~fuseOut.called
    /\ Len(fuseModule) < MaxModuleLines
    /\ \E l \in ModuleLines, inHeader \in BOOLEAN :
         /\ ValidNextLine(fuseModule, l)
         /\ inHeader => fuseHeader = Len(fuseModule)
         /\ fuseModule' = Append(fuseModule, l)
         /\ fuseHeader' = IF inHeader THEN fuseHeader + 1 ELSE fuseHeader
    /\ UNCHANGED fuseOut
    /\ UNCHANGED outsideFuse

FuseTypesAndConstants ==
    /\ ~fuseOut.called
    /\ fuseOut' = [called |-> TRUE,
                   lines |-> removeNonCode(FuseLines(fuseModule, {}, {}),
                                           fuseHeader)]
    /\ UNCHANGED <<fuseModule, fuseHeader>>
    /\ UNCHANGED outsideFuse

FuseNext ==
    \/ AddLine
    \/ FuseTypesAndConstants


(***************************************************************************)
(*            Block order of a linker module (LinkerModule.cpp)            *)
(***************************************************************************)
\* A module has at most MaxBlocks blocks.
MaxBlocks == 4

\* enum Block::BlockKind, in the order of its enumerators.
BlockKinds ==
    <<"BK_Header", "BK_Decor", "BK_TypeAndConst", "BK_Var", "BK_FunDecl",
      "BK_Function", "BK_MainFun">>
getKind(kind) == CHOOSE r \in DOMAIN BlockKinds : BlockKinds[r] = kind

\* The comparison fixBlockOrder sorts by: "LHS->getKind() < RHS->getKind()".
KindNotAfter(lhs, rhs) == getKind(lhs.kind) <= getKind(rhs.kind)
KindBefore(lhs, rhs) == getKind(lhs.kind) < getKind(rhs.kind)

\* std::stable_sort with that comparison, one element after the other: an
\* element goes before the first element it compares less than.
InsertBlock(sorted, b) ==
    LET later == {i \in DOMAIN sorted : KindBefore(b, sorted[i])}
        at == IF later = {} THEN Len(sorted) + 1
              ELSE CHOOSE i \in later : \A o \in later : i <= o
    IN  SubSeq(sorted, 1, at - 1) \o <<b>> \o SubSeq(sorted, at, Len(sorted))
RECURSIVE StableSort(_)
StableSort(blocks) ==
    IF blocks = <<>> THEN <<>>
    ELSE InsertBlock(StableSort(SubSeq(blocks, 1, Len(blocks) - 1)),
                     blocks[Len(blocks)])

BlocksInit ==
    /\ Blocks = <<>>
    /\ blocksBefore = <<>>
    /\ orderFixed = FALSE

\* LinkerModule::addBlock: one more block, of any kind.
AddBlock ==
    /\ ~orderFixed
    /\ Len(Blocks) < MaxBlocks
    /\ \E kind \in {BlockKinds[r] : r \in DOMAIN BlockKinds} :
         Blocks' = Append(Blocks, [kind |-> kind, number |-> Len(Blocks) + 1])
    /\ UNCHANGED <<blocksBefore, orderFixed>>
    /\ UNCHANGED outsideBlocks

\* LinkerModule::fixBlockOrder().
fixBlockOrder ==
    /\ ~orderFixed
    /\ Blocks' = StableSort(Blocks)
    /\ blocksBefore' = Blocks
    /\ orderFixed' = TRUE
    /\ UNCHANGED outsideBlocks

BlocksNext ==
    \/ AddBlock
    \/ fixBlockOrder


(***************************************************************************)
(*        Decorations of the wrapper module (ReflectionPass.cpp)           *)
(***************************************************************************)
\* A module has at most MaxAllocs allocation globals; __GPUBlock has at most
\* MaxMembers members.
MaxAllocs == 3
MaxMembers == 2
AllocNames == {"%a", "%b", "%c", "%d"}

\* An identifier is written as a name and a suffix.
Id(name) == <<name, "">>
OpDecorate(target, decoration, value) ==
    [op |-> "OpDecorate", target |-> target, member |-> 0,
     decoration |-> decoration, value |-> value]
OpMemberDecorate(target, member, offset) ==
    [op |-> "OpMemberDecorate", target |-> target, member |-> member,
     decoration |-> "Offset", value |-> offset]
\* A decoration without operand is written with value 0.
FixedDecorations ==
    <<OpDecorate(Id("%global_invocation_id"), "BuiltIn GlobalInvocationId", 0),
      OpDecorate(Id("%input_image"), "DescriptorSet", 0),
      OpDecorate(Id("%input_image"), "Binding", 0),
      OpDecorate(Id("%input_image"), "NonWritable", 0),
      OpDecorate(Id("%output_image"), "DescriptorSet", 0),
      OpDecorate(Id("%output_image"), "Binding", 1),
      OpDecorate(Id("%output_image"), "NonReadable", 0)>>

\* The loop over the members of the struct type of __GPUBlock.
MemberDecorations(offsets) ==
    [i \in 1..Len(offsets) |->
        OpMemberDecorate(Id("%rs_linker_struct___GPUBuffer"), i - 1, offsets[i])]
GPUBlockDecorations ==
    <<OpDecorate(Id("%rs_linker_struct___GPUBuffer"), "BufferBlock", 0),
      OpDecorate(Id("%rs_linker___GPUBlock"), "DescriptorSet", 0),
      OpDecorate(Id("%rs_linker___GPUBlock"), "Binding", 2)>>

\* A.VarName << "_var".
AllocVar(name) == <<name, "_var">>

\* The loop over RSAllocs, BindingNum being the number of the next binding.
RECURSIVE AllocDecorations(_, _)
AllocDecorations(allocs, BindingNum) ==
    IF allocs = <<>> THEN <<>>
    ELSE <<OpDecorate(AllocVar(Head(allocs)), "DescriptorSet", 0),
           OpDecorate(AllocVar(Head(allocs)), "Binding", BindingNum)>>
         \o AllocDecorations(Tail(allocs), BindingNum + 1)

\* ReflectionPass::emitDecorations(M, RSAllocs): its result and what it
\* wrote to OS.
emitDecorations(block, allocs) ==
    IF block.shape = "absent"
    THEN [called |-> TRUE, ok |-> TRUE, lines |-> FixedDecorations]
    ELSE IF block.shape # "struct"
    THEN [called |-> TRUE, ok |-> FALSE, lines |-> FixedDecorations]
    ELSE [called |-> TRUE, ok |-> TRUE,
          lines |-> FixedDecorations \o MemberDecorations(block.offsets)
                    \o GPUBlockDecorations \o AllocDecorations(allocs, 3)]

GPUBlocks ==
    {[shape |-> "absent", offsets |-> <<>>], [shape |-> "other", offsets |-> <<>>]}
    \cup {[shape |-> "struct", offsets |-> [i \in 1..n |-> 4 * (i - 1)]] :
            n \in 0..MaxMembers}

\* Sequences of distinct allocation names.
AllocLists ==
    {q \in BoundedSeqs(AllocNames, MaxAllocs) :
        \A i, j \in DOMAIN q : i # j => q[i] # q[j]}

NoDecorations == [called |-> FALSE, ok |-> FALSE, lines |-> <<>>]

\* Before the pass: any module.
ReflectInit ==
    /\ gpuBlock \in GPUBlocks
    /\ RSAllocs \in AllocLists
    /\ reflOut = NoDecorations

ReflectIdle ==
    /\ gpuBlock = [shape |-> "absent", offsets |-> <<>>]
    /\ RSAllocs = <<>>
    /\ reflOut = NoDecorations

EmitDecorations ==
    /\ ~reflOut.called
    /\ reflOut' = emitDecorations(gpuBlock, RSAllocs)
    /\ UNCHANGED <<gpuBlock, RSAllocs>>
    /\ UNCHANGED outsideReflect

ReflectNext == EmitDecorations


(***************************************************************************)
(*        Wi-Fi Aware native bridge: android_net_wifi_nan_publish          *)
(*                                                                         *)
(* A byte array is a tuple of bytes.  The three maximum lengths stand for  *)
(* the platform constants of the same names.                               *)
(***************************************************************************)
NAN_MAX_SERVICE_NAME_LEN == 2
NAN_MAX_SERVICE_SPECIFIC_INFO_LEN == 3
NAN_MAX_MATCH_FILTER_LEN == 2

\* The hard-coded period of line 394.
PublishPeriod == 500

NameBytes == {0, 1}
PublishTypes == {"UNSOLICITED", "SOLICITED", "UNSOLICITED_SOLICITED"}
\* wifi_error values of the hardware layer: WIFI_SUCCESS and a failure.
HalResults == {0, -1}

\* The byte arrays of length up to n whose bytes are all b.
Filled(b, n) == {[i \in 1..k |-> b] : k \in 0..n}

\* JNIHelper::getByteArrayField(obj, name, buf, &size, max_size): the size it
\* reports and the bytes it leaves in the zeroed buffer.  It reports the
\* array's length, and copies the array only when it fits.
GetByteArrayField(array, max_size) ==
    [size |-> Len(array),
     buf |-> IF Len(array) <= max_size THEN array ELSE <<>>]

\* Line 407, the test of the service name's length; and the same test made
\* against the limit of the service-specific info.
ServiceNameOverInfoLimit(array_length) ==
    array_length > NAN_MAX_SERVICE_SPECIFIC_INFO_LEN
ServiceNameTooLong(array_length) == array_length > NAN_MAX_SERVICE_NAME_LEN

NoPublish == [called |-> FALSE, ret |-> 0, hal |-> <<>>]
\* publish returns ret after it passed the requests of hal to the hardware.
PublishReturn(ret, hal) == [called |-> TRUE, ret |-> ret, hal |-> hal]

\* android_net_wifi_nan_publish(transaction_id, publish_id, iface, config),
\* the hardware layer answering halRet.
android_net_wifi_nan_publish(publish_id, config, halRet) ==
    LET name == GetByteArrayField(config.mServiceName,
                                  NAN_MAX_SERVICE_NAME_LEN)
        info == GetByteArrayField(config.mServiceSpecificInfo,
                                  NAN_MAX_SERVICE_SPECIFIC_INFO_LEN)
        filter == GetByteArrayField(config.mMatchFilter,
                                    NAN_MAX_MATCH_FILTER_LEN)
        unsolicited == config.mPublishType = "UNSOLICITED"
        msg == [period |-> PublishPeriod,
                publish_match_indicator |-> "NAN_MATCH_ALG_MATCH_ONCE",
                publish_id |-> publish_id,
                publish_type |-> config.mPublishType,
                service_name |-> name.buf,
                service_name_len |-> name.size,
                service_specific_info |-> info.buf,
                service_specific_info_len |-> info.size,
                tx_match_filter |-> IF unsolicited THEN filter.buf ELSE <<>>,
                tx_match_filter_len |-> IF unsolicited THEN filter.size ELSE 0,
                rx_match_filter |-> IF unsolicited THEN <<>> ELSE filter.buf,
                rx_match_filter_len |-> IF unsolicited THEN 0 ELSE filter.size,
                publish_count |-> config.mPublishCount,
                ttl |-> config.mTtlSec,
                tx_type |-> IF unsolicited THEN "NAN_TX_TYPE_BROADCAST"
                            ELSE "NAN_TX_TYPE_UNICAST",
                recv_indication_cfg |->
                    IF config.mEnableTerminateNotification THEN 0 ELSE 1]
    IN  IF ServiceNameTooLong(name.size) THEN PublishReturn(0, <<>>)
        ELSE IF info.size > NAN_MAX_SERVICE_SPECIFIC_INFO_LEN
        THEN PublishReturn(0, <<>>)
        ELSE IF filter.size > NAN_MAX_MATCH_FILTER_LEN
        THEN PublishReturn(0, <<>>)
        ELSE PublishReturn(halRet, <<msg>>)

\* The PublishConfig objects: every field set, arrays up to one byte longer
\* than their limits.
PublishConfigs ==
    [mPublishType : PublishTypes,
     mServiceName : BoundedSeqs(NameBytes, NAN_MAX_SERVICE_NAME_LEN + 1),
     mServiceSpecificInfo : Filled(1, NAN_MAX_SERVICE_SPECIFIC_INFO_LEN + 1),
     mMatchFilter : Filled(1, NAN_MAX_MATCH_FILTER_LEN + 1),
     mPublishCount : {0, 1},
     mTtlSec : {0, 1},
     mEnableTerminateNotification : BOOLEAN]

EmptyConfig ==
    [mPublishType |-> "UNSOLICITED", mServiceName |-> <<>>,
     mServiceSpecificInfo |-> <<>>, mMatchFilter |-> <<>>,
     mPublishCount |-> 0, mTtlSec |-> 0,
     mEnableTerminateNotification |-> FALSE]

AwareInit ==
    /\ publish_config \in PublishConfigs
    /\ halReturn \in HalResults
    /\ awareOut = NoPublish

AwareIdle ==
    /\ publish_config = EmptyConfig
    /\ halReturn = 0
    /\ awareOut = NoPublish

PublishNative ==
    /\ ~awareOut.called
    /\ \E publish_id \in {0, 1} :
         awareOut' = android_net_wifi_nan_publish(publish_id, publish_config,
                                                  halReturn)
    /\ UNCHANGED <<publish_config, halReturn>>
    /\ UNCHANGED outsideAware

AwareNext == PublishNative


(***************************************************************************)
(*                 RSSPIRVWriter: FixVectorShuffles                        *)
(*                                                                         *)
(* A line is a tuple of characters, as in the fusion of types; an          *)
(* instruction name counts as one character.  The lines of a block have    *)
(* no white space at either end: Block::addLine trims them.                *)
(***************************************************************************)
\* The components of one OpVectorShuffle, and the fix-ups applied in a row.
MaxShuffleComponents == 3
MaxFixes == 2

\* The literal 4294967295, and the pattern and the replacement of lines
\* 561 and 569.
UndefLiteral == <<"4", "2", "9", "4", "9", "6", "7", "2", "9", "5">>
UndefStr == <<" ">> \o UndefLiteral \o <<" ">>
ZeroStr == <<" ", "0", " ">>

\* SPIRVLine::contains and SPIRVLine::replaceStr.
LineContains(line, s) == StrFind(line, s, 0) # NPos
replaceStr(line, original, new) ==
    LET pos == StrFind(line, original, 0)
    IN  IF pos = NPos THEN line
        ELSE StrReplace(line, pos, Len(original), new)

\* The loop of lines 568-569.
RECURSIVE ReplaceUndefs(_)
ReplaceUndefs(line) ==
    IF LineContains(line, UndefStr)
    THEN ReplaceUndefs(replaceStr(line, UndefStr, ZeroStr))
    ELSE line

\* Lines 564-571: what FixVectorShuffles does to one line; and the same with
\* an "if" in the place of the "while" of line 568.
FixFirstUndefOnly(line) ==
    IF ~LineContains(line, <<"OpVectorShuffle">>) THEN line
    ELSE StrTrim(replaceStr(Append(line, " "), UndefStr, ZeroStr))
FixShuffleLine(line) ==
    IF ~LineContains(line, <<"OpVectorShuffle">>) THEN line
    ELSE StrTrim(ReplaceUndefs(Append(line, " ")))

\* The literals a shuffle can have as components: indices, the undef
\* literal, and literals that begin or end with its digits.
ShuffleLiterals ==
    {<<"0">>, <<"3">>, UndefLiteral, <<"1">> \o UndefLiteral,
     UndefLiteral \o <<"0">>}

RECURSIVE ComponentLists(_)
ComponentLists(n) ==
    IF n = 0 THEN {<<>>}
    ELSE LET shorter == ComponentLists(n - 1)
         IN  shorter \cup {q \o <<" ">> \o c :
                             q \in {r \in shorter : Len(r) > 0 \/ n = 1},
                             c \in ShuffleLiterals}

\* "%r = OpVectorShuffle %v %a %b" and its components; a constant whose value
\* is the undef literal.
ShuffleLine(components) ==
    <<"%", "r", " ", "=", " ", "OpVectorShuffle", " ", "%", "v", " ",
      "%", "a", " ", "%", "b">> \o components
ConstantLine ==
    <<"%", "c", " ", "=", " ", "OpConstant", " ", "%", "u", " ">>
        \o UndefLiteral
MainLines ==
    {ShuffleLine(c) : c \in ComponentLists(MaxShuffleComponents)}
        \cup {ConstantLine}

ShuffleInit ==
    /\ shufLines \in {<<l>> : l \in MainLines}
                     \cup {<<ConstantLine, l>> : l \in MainLines}
    /\ shufInput = shufLines
    /\ shufFirst = shufLines
    /\ shufFixes = 0

ShuffleIdle ==
    /\ shufLines = <<>>
    /\ shufInput = <<>>
    /\ shufFirst = <<>>
    /\ shufFixes = 0

\* FixVectorShuffles(MB): every line of the block.
FixVectorShuffles ==
    /\ shufFixes < MaxFixes
    /\ shufLines' = [i \in DOMAIN shufLines |-> FixShuffleLine(shufLines[i])]
    /\ shufFirst' = IF shufFixes = 0 THEN shufLines' ELSE shufFirst
    /\ shufFixes' = shufFixes + 1
    /\ UNCHANGED shufInput
    /\ UNCHANGED outsideShuffle

ShuffleNext == FixVectorShuffles


(***************************************************************************)
(*                    LinkerModule: SPIRVLine::replaceId                   *)
(***************************************************************************)
\* The identifiers after the instruction name, and the calls made on a line.
MaxOperands == 3
MaxReplaceCalls == 2

\* What an identifier is replaced by: one that is new to the line, and one
\* the line may hold already.
NewIds == {<<"%", "n">>, <<"%", "b">>}

RECURSIVE OperandLists(_)
OperandLists(n) ==
    IF n = 0 THEN {<<>>}
    ELSE LET shorter == OperandLists(n - 1)
         IN  shorter \cup {q \o <<" ">> \o x :
                             q \in {r \in shorter : Len(r) > 0 \/ n = 1},
                             x \in ModuleIds}

\* "%x = OpIAdd ...", "OpStore ..." and "OpReturn".
RidLines ==
    {x \o <<" ", "=", " ", "OpIAdd">> \o ops :
        x \in ModuleIds, ops \in OperandLists(MaxOperands - 1)}
    \cup {<<"OpStore">> \o ops : ops \in OperandLists(MaxOperands)}
    \cup {<<"OpReturn">>}

NoReplace ==
    [called |-> FALSE, original |-> <<>>, new |-> <<>>, before |-> <<>>,
     res |-> FALSE]

RidInit ==
    /\ ridLine \in RidLines
    /\ ridLast = NoReplace
    /\ ridCalls = 0

RidIdle ==
    /\ ridLine = <<>>
    /\ ridLast = NoReplace
    /\ ridCalls = 0

\* L.replaceId(Original, New).
ReplaceIdCall ==
    /\ ridCalls < MaxReplaceCalls
    /\ \E original \in ModuleIds, new \in NewIds :
         /\ original # new
         /\ LET r == replaceId(ridLine, original, new)
            IN  /\ ridLine' = r.line
                /\ ridLast' = [called |-> TRUE, original |-> original,
                               new |-> new, before |-> ridLine, res |-> r.res]
    /\ ridCalls' = ridCalls + 1
    /\ UNCHANGED outsideRid

RidNext == ReplaceIdCall


(***************************************************************************)
(*        RSSPIRVWriter: Link, FixMain and InlineFunctionCalls             *)
(*                                                                         *)
(* Lines are tuples of characters as above; a name after "%" and an        *)
(* instruction name count as one character each.                           *)
(***************************************************************************)
\* The calls main makes.
MaxCalls == 2

V(name) == <<"%", name>>

\* The words joined by single blanks.
RECURSIVE JoinWords(_)
JoinWords(ws) ==
    IF Len(ws) = 0 THEN <<>>
    ELSE IF Len(ws) = 1 THEN ws[1]
    ELSE ws[1] \o <<" ">> \o JoinWords(Tail(ws))

\* SPIRVLine::contains for the instruction names the linker looks for:
\* "OpFunctionCall", "OpFunctionParameter", "OpLabel", "OpReturnValue", and
\* "OpReturn", which OpReturnValue contains as well.
HasWord(line, words) == \E i \in DOMAIN line : line[i] \in words
IsCallLine(line) == HasWord(line, {"OpFunctionCall"})
IsParameterLine(line) == HasWord(line, {"OpFunctionParameter"})
IsLabelLine(line) == HasWord(line, {"OpLabel"})
IsReturnValueLine(line) == HasWord(line, {"OpReturnValue"})
IsReturnLine(line) == HasWord(line, {"OpReturn", "OpReturnValue"})

FirstWhere(lines, from, Test(_)) ==
    LET hits == {i \in from..Len(lines) : Test(lines[i])}
    IN  IF hits = {} THEN Len(lines) + 1
        ELSE CHOOSE i \in hits : \A j \in hits : i <= j

\* FunctionBlock::getFunctionName, getArgNames, getArity, getRetValName,
\* body, getCalledFunctions, hasFunctionCalls, isDirectlyRecursive,
\* isReturnTypeVoid.
getFunctionName(lines) == getLHSIdentifier(lines[1])
getArgNames(lines) ==
    LET params == SelectSeq(lines, IsParameterLine)
    IN  [i \in DOMAIN params |-> getLHSIdentifier(params[i])]
getArity(lines) == Len(SelectSeq(lines, IsParameterLine))
getRetValName(lines) ==
    LET rets == SelectSeq(lines, IsReturnValueLine)
    IN  IF rets = <<>> THEN [found |-> FALSE, id |-> <<>>]
        ELSE [found |-> TRUE, id |-> getIdentifiers(rets[1], 0)[1]]
body(lines) ==
    LET begin == FirstWhere(lines, 1, IsLabelLine) + 1
        end == FirstWhere(lines, begin, IsReturnLine)
    IN  SubSeq(lines, begin, end - 1)
getCalledFunctions(lines) ==
    LET calls == SelectSeq(lines, IsCallLine)
    IN  [i \in DOMAIN calls |-> getRHSIdentifiers(calls[i])[2]]
hasFunctionCalls(lines) == getCalledFunctions(lines) # <<>>
isDirectlyRecursive(lines) ==
    \E i \in DOMAIN getCalledFunctions(lines) :
        getCalledFunctions(lines)[i] = getFunctionName(lines)
isReturnTypeVoid(lines) ==
    /\ getRHSIdentifiers(lines[1])[1] \in {V("void"), V("rs_linker_void")}
    /\ StrTrim(lines[Len(lines) - 1]) = <<"OpReturn">>

\* GetFunctionCallInfo(L).
GetFunctionCallInfo(line) ==
    LET ids == getRHSIdentifiers(line)
    IN  [RetValName |-> getLHSIdentifier(line), RetTy |-> ids[1],
         FName |-> ids[2], ArgNames |-> SubSeq(ids, 3, Len(ids))]

\* The one value of a set of one value.  (A value bound by a set is worked
\* out once however often it is used.)
Only(S) == CHOOSE x \in S : TRUE

\* The loop of Block::replaceAllIds on one line, "while (L.replaceId(Old,
\* New));": the line it ends with, or that it never ends, which is when a
\* replacement succeeds and leaves the line as it was.
RECURSIVE ReplaceWhileFound(_, _, _)
ReplaceWhileFound(line, old, new) ==
    Only({IF ~r.res THEN [line |-> line, spins |-> FALSE]
          ELSE IF r.line = line THEN [line |-> line, spins |-> TRUE]
          ELSE ReplaceWhileFound(r.line, old, new) :
             r \in {replaceId(line, old, new)}})
replaceAllIds(lines, old, new) ==
    Only({[lines |-> [i \in DOMAIN lines |-> rs[i].line],
           spins |-> \E i \in DOMAIN lines : rs[i].spins] :
             rs \in {[i \in DOMAIN lines |->
                        ReplaceWhileFound(lines[i], old, new)]}})


\* Lines 399-445 for one call: the callee must be one function block with as
\* many parameters as the call has arguments and with a return value unless
\* it returns void; then its body is spliced in, and its parameters are
\* paired with the arguments, the result of the call with its return value.
NoSplice == [ok |-> FALSE, lines |-> <<>>, mapping |-> <<>>]
SpliceOf(fb, info, ret, params) ==
    IF getArity(fb) # Len(info.ArgNames) THEN NoSplice
    ELSE IF ~ret.found /\ ~isReturnTypeVoid(fb) THEN NoSplice
    ELSE [ok |-> TRUE,
          lines |-> body(fb),
          mapping |-> [k \in DOMAIN params |-> <<params[k], info.ArgNames[k]>>]
                      \o (IF ret.found THEN <<<<info.RetValName, ret.id>>>>
                          ELSE <<>>)]
SpliceCallee(fb, info) ==
    Only({SpliceOf(fb, info, ret, params) :
             ret \in {getRetValName(fb)}, params \in {getArgNames(fb)}})
SpliceCall(blocks, info) ==
    Only({IF Cardinality(callees) # 1 THEN NoSplice
          ELSE SpliceCallee(blocks[Only(callees)], info) :
             callees \in {{k \in DOMAIN blocks :
                              getFunctionName(blocks[k]) = info.FName}}})

\* Lines 390-397 and 447-451 for one line of main: a line without a call is
\* copied.
SpliceLine(blocks, line) ==
    IF ~IsCallLine(line)
    THEN [ok |-> TRUE, lines |-> <<line>>, mapping |-> <<>>]
    ELSE Only({SpliceCall(blocks, info) :
                  info \in {GetFunctionCallInfo(line)}})

\* Lines 390-452 from line i of main on: the lines of the new main block and
\* the name mapping, or a failure.
RECURSIVE InlineFrom(_, _, _, _, _)
InlineFrom(blocks, main, i, newLines, mapping) ==
    IF i > Len(main)
    THEN [ok |-> TRUE, lines |-> newLines, mapping |-> mapping]
    ELSE Only(UNION
            {{IF ~s.ok
              THEN [ok |-> FALSE, lines |-> newLines, mapping |-> mapping]
              ELSE InlineFrom(blocks, main, j, nl, mp) :
                 j \in {i + 1},
                 nl \in {newLines \o s.lines},
                 mp \in {mapping \o s.mapping}} :
                s \in {SpliceLine(blocks, main[i])}})

\* Lines 454-458: the first n pairs of the name mapping applied from the
\* last of them to the first.
RECURSIVE ApplyNameMapping(_, _, _)
ApplyNameMapping(lines, mapping, n) ==
    IF n = 0 THEN [lines |-> lines, spins |-> FALSE]
    ELSE Only({IF r.spins THEN r
               ELSE ApplyNameMapping(r.lines, mapping, n - 1) :
                  r \in {replaceAllIds(lines, mapping[n][1], mapping[n][2])}})

\* InlineFunctionCalls(LM, MB): whether it succeeded, whether it never
\* returns, and the main block after it.
InlineOutcome(r, renamed, main) ==
    [ok |-> r.ok,
     spins |-> r.ok /\ renamed.spins,
     lines |-> IF r.ok /\ ~renamed.spins THEN renamed.lines ELSE main]
InlineFunctionCalls(funs, main) ==
    Only(UNION {{InlineOutcome(r, renamed, main) :
                    renamed \in {ApplyNameMapping(r.lines, r.mapping,
                                                  Len(r.mapping))}} :
                   r \in {InlineFrom(blocks, main, 2, <<main[1]>>, <<>>) :
                             blocks \in {<<main>> \o funs}}})

\* The function blocks of a kernel module.  %f and %g take one parameter.  A
\* body is an addition, a call of the other function after an addition, a
\* call of the other function and nothing else, or a call of the function
\* itself; %g may also return nothing.
OtherOf(f) == IF f = "f" THEN "g" ELSE "f"
ParamOf(f) == IF f = "f" THEN V("p") ELSE V("q")
LocalOf(f) == IF f = "f" THEN V("t") ELSE V("s")
TempOf(f) == IF f = "f" THEN V("w") ELSE V("z")

AddLineOf(res, a) ==
    JoinWords(<<res, <<"=">>, <<"OpIAdd">>, V("u"), a, a>>)
CallLineOf(res, ty, f, a) ==
    JoinWords(<<res, <<"=">>, <<"OpFunctionCall">>, ty, V(f), a>>)
UseLineOf(a) == JoinWords(<<<<"OpStore">>, V("o"), a>>)

BodyOf(f, shape) ==
    CASE shape = "add" -> <<AddLineOf(LocalOf(f), ParamOf(f))>>
      [] shape = "addcall" ->
            <<AddLineOf(TempOf(f), ParamOf(f)),
              CallLineOf(LocalOf(f), V("u"), OtherOf(f), TempOf(f))>>
      [] shape = "call" ->
            <<CallLineOf(LocalOf(f), V("u"), OtherOf(f), ParamOf(f))>>
      [] shape = "self" ->
            <<CallLineOf(LocalOf(f), V("u"), f, ParamOf(f))>>
      [] shape = "void" -> <<UseLineOf(ParamOf(f))>>

FunctionOf(f, shape) ==
    <<JoinWords(<<V(f), <<"=">>, <<"OpFunction">>,
                  IF shape = "void" THEN V("void") ELSE V("u"),
                  <<"None">>, V("ft")>>),
      JoinWords(<<ParamOf(f), <<"=">>, <<"OpFunctionParameter">>, V("u")>>),
      JoinWords(<<V("l"), <<"=">>, <<"OpLabel">>>>)>>
    \o BodyOf(f, shape)
    \o <<IF shape = "void" THEN <<"OpReturn">>
         ELSE JoinWords(<<<<"OpReturnValue">>, LocalOf(f)>>),
         <<"OpFunctionEnd">>>>

\* The shapes of %f and %g that go together: no call of a function whose
\* body goes on calling after an addition (main would grow without end).
KernelModules ==
    {<<FunctionOf("f", sf), FunctionOf("g", sg)>> :
        sf \in {"add", "addcall", "call", "self"},
        sg \in {"add", "call", "void"}}
    \ {<<FunctionOf("f", "addcall"), FunctionOf("g", "call")>>}

\* The main functions of a wrapper module: up to MaxCalls calls of %f, %g or
\* of %h, which no module defines; the argument of a call is %x, %y or the
\* result of the call before it; every result is used after the calls.
ResultOf(k) == V(<<"r1", "r2", "r3", "r4">>[k])
CallSeqs ==
    UNION {[1..n -> [callee : {"f", "g", "h"}, arg : {"x", "y", "prev"}]] :
              n \in 1..MaxCalls}
MainOf(calls) ==
    <<JoinWords(<<V("main"), <<"=">>, <<"OpFunction">>, V("void"),
                  <<"None">>, V("mt")>>),
      JoinWords(<<V("lm"), <<"=">>, <<"OpLabel">>>>)>>
    \o [k \in DOMAIN calls |->
          CallLineOf(ResultOf(k), V("u"), calls[k].callee,
                     IF calls[k].arg = "prev" THEN ResultOf(k - 1)
                     ELSE V(calls[k].arg))]
    \o [k \in DOMAIN calls |-> UseLineOf(ResultOf(k))]
    \o <<<<"OpReturn">>, <<"OpFunctionEnd">>>>
MainFunctions ==
    {MainOf(calls) : calls \in {c \in CallSeqs : c[1].arg # "prev"}}

InlineInit ==
    /\ inlFuns \in KernelModules
    /\ inlMain \in MainFunctions
    /\ inlBefore = <<>>
    /\ inlState = "start"

InlineIdle ==
    /\ inlFuns = <<>>
    /\ inlMain = <<>>
    /\ inlBefore = <<>>
    /\ inlState = "start"

\* Link, lines 279-299: the kernel module's functions are taken over unless
\* one of them calls itself; then FixMain begins.
LinkBegin ==
    /\ inlState = "start"
    /\ inlState' = IF \E i \in DOMAIN inlFuns : isDirectlyRecursive(inlFuns[i])
                   THEN "failed" ELSE "inlining"
    /\ UNCHANGED <<inlFuns, inlMain, inlBefore>>
    /\ UNCHANGED outsideInline

\* FixMain, lines 329-333: one turn of the loop, main has calls.  In the
\* state "replacing" the call is inside a replaceAllIds loop that never ends.
InlinePass ==
    /\ inlState = "inlining"
    /\ hasFunctionCalls(inlMain)
    /\ \E r \in {InlineFunctionCalls(inlFuns, inlMain)} :
           /\ inlMain' = r.lines
           /\ inlBefore' = inlMain
           /\ inlState' = IF ~r.ok THEN "failed"
                          ELSE IF r.spins THEN "replacing"
                          ELSE "inlining"
    /\ UNCHANGED inlFuns
    /\ UNCHANGED outsideInline

\* FixMain, lines 329 and 335-343: main has no calls left.
FixMainReturn ==
    /\ inlState = "inlining"
    /\ ~hasFunctionCalls(inlMain)
    /\ inlState' = "done"
    /\ UNCHANGED <<inlFuns, inlMain, inlBefore>>
    /\ UNCHANGED outsideInline

InlineNext == LinkBegin \/ InlinePass \/ FixMainReturn

(***************************************************************************)
(*                          Specifications                                 *)
(***************************************************************************)
\* Every library but c is as it is before its first call.
OthersIdle(c) ==
    /\ (c # "FontCache") => FcInit
    /\ (c # "Cues") => CueInit
    /\ (c # "Nal") => NalIdle
    /\ (c # "Vorbis") => VorbisIdle
    /\ (c # "WordBreaker") => WbIdle
    /\ (c # "Fuse") => FuseInit
    /\ (c # "Blocks") => BlocksInit
    /\ (c # "Reflect") => ReflectIdle
    /\ (c # "Aware") => AwareIdle
    /\ (c # "Shuffle") => ShuffleIdle
    /\ (c # "Rid") => RidIdle
    /\ (c # "Inline") => InlineIdle

InitDecoder == DecInit /\ WifiInit /\ SvcAbsent /\ SupIdle /\ OthersIdle("")

SpecDecoder == InitDecoder /\ [][DecNext]_vars

InitWifi == WifiInit /\ SvcInit /\ DecIdle /\ SupIdle /\ OthersIdle("")

SpecWifi == InitWifi /\ [][WifiNext]_vars

\* A poll that has something to report returns: an event-wait thread inside
\* wifi_ctrl_recv goes on when a descriptor is readable, or when the poll
\* timed out and the supplicant is gone.  Nothing obliges poll to fail.
WifiFairness ==
    WF_vars(PollTimeout \/ ReceiveEvent \/ ReceiveNothing \/ PollCancelled)

SpecWifiFair == SpecWifi /\ WifiFairness

InitWifiEvent == WifiEventInit /\ DecIdle /\ SupIdle /\ OthersIdle("")

SpecWifiEvent == InitWifiEvent /\ [][ReceiveEvent]_vars

InitSupplicant == SupInit /\ SvcInit /\ DecIdle /\ WifiInit /\ OthersIdle("")

SpecSupplicant == InitSupplicant /\ [][SupNext]_vars

\* The libraries below run with the decoder, the wifi client and the
\* supplicant manager idle.
CoreIdle == DecIdle /\ WifiInit /\ SvcAbsent /\ SupIdle

InitFontCache == FcInit /\ CoreIdle /\ OthersIdle("FontCache")

SpecFontCache == InitFontCache /\ [][FcNext]_vars

InitCues == CueInit /\ CoreIdle /\ OthersIdle("Cues")

SpecCues == InitCues /\ [][CueNext]_vars

InitNal == NalInit /\ CoreIdle /\ OthersIdle("Nal")

SpecNal == InitNal /\ [][NalNext]_vars

InitVorbis == VorbisInit /\ CoreIdle /\ OthersIdle("Vorbis")

SpecVorbis == InitVorbis /\ [][VorbisNext]_vars

InitWordBreaker == WbInit /\ CoreIdle /\ OthersIdle("WordBreaker")

SpecWordBreaker == InitWordBreaker /\ [][WbNext]_vars

InitFuse == FuseInit /\ CoreIdle /\ OthersIdle("Fuse")

SpecFuse == InitFuse /\ [][FuseNext]_vars

InitBlocks == BlocksInit /\ CoreIdle /\ OthersIdle("Blocks")

SpecBlocks == InitBlocks /\ [][BlocksNext]_vars

InitReflect == ReflectInit /\ CoreIdle /\ OthersIdle("Reflect")

SpecReflect == InitReflect /\ [][ReflectNext]_vars

InitAware == AwareInit /\ CoreIdle /\ OthersIdle("Aware")

SpecAware == InitAware /\ [][AwareNext]_vars

InitShuffle == ShuffleInit /\ CoreIdle /\ OthersIdle("Shuffle")

SpecShuffle == InitShuffle /\ [][ShuffleNext]_vars

InitRid == RidInit /\ CoreIdle /\ OthersIdle("Rid")

SpecRid == InitRid /\ [][RidNext]_vars

InitInline == InlineInit /\ CoreIdle /\ OthersIdle("Inline")

SpecInline == InitInline /\ [][InlineNext]_vars

\* The linker is one thread that runs on: a step of Link or FixMain that can
\* be taken is taken.
SpecInlineFair ==
    /\ InitInline
    /\ [][InlineNext]_vars
    /\ WF_vars(LinkBegin)
    /\ WF_vars(InlinePass)
    /\ WF_vars(FixMainReturn)

\* Every codec and source call returns, and a woken stop() gets the lock:
\* a thread that is inside read() or stop() goes on.  Nothing obliges a
\* caller to make a new call.
DecFairness ==
    \A t \in Threads :
        /\ WF_vars(SourceReadReturn(t))
        /\ WF_vars(OutputDequeueReturn(t))
        /\ WF_vars(StopWake(t))

SpecDecoderFair == SpecDecoder /\ DecFairness

(***************************************************************************)
(* Claims about SimpleDecodingSource.                                      *)
(***************************************************************************)

\* C1: stop() never calls mCodec->stop() while a read() is between setting
\* mReading and clearing it.
C1_CodecStopWaitsForReads == readersAtCodecStop = {}

\* C2: a read() entered after a stop() returned OK returns end-of-stream
\* without calling the codec or the source.
C2_ReadAfterStopIsEOS ==
    /\ \A t \in InReadProtocol : ~obs[t].afterStop
    /\ (lastRet.op = "read" /\ lastRet.afterStop)
          => (lastRet.ret = "EOS" /\ ~lastRet.touched
              /\ lastRet.buffer = "NULL")

\* C2 witness: a read() that was entered after a successful stop() has returned.
C2_Witness == lastRet.op = "read" /\ lastRet.afterStop

\* C3: a read() whose mSource->read succeeded or reported end-of-stream, and
\* that finds the adapter stopping or stopped when it takes the lock again,
\* returns end-of-stream once the codec has accepted the input EOS marker.
C3_ReadAbortedByStopReturnsEOS ==
    (/\ lastRet.op = "read"
     /\ lastRet.src.state \in {"STOPPING", "STOPPED"}
     /\ lastRet.src.res \in {"OK", "EOS"}
     /\ lastRet.src.eosQueued)
       => lastRet.ret = "EOS"

\* C4: once mState is ERROR no step changes it.
C4_ErrorIsTerminal == [][mState = "ERROR" => mState' = "ERROR"]_vars

\* The codec calls of doRead that hand over, queue or dequeue a buffer.
BufferFailures ==
    {"deqIn", "getIn", "queueEOS", "queueData", "deqOut", "deqOutNotStarted",
     "getOut"}

\* C5 as stated: a read() during which a buffer hand-over, queue or dequeue
\* call of the codec failed returns with mState = ERROR.
C5_CodecFailureLeavesError ==
    (lastRet.op = "read" /\ lastRet.fails \cap BufferFailures # {})
       => lastRet.state = "ERROR"

\* C5 as amended: the same, except for a failed dequeueOutputBuffer that
\* returns when the adapter is no longer STARTED: that failure is dropped
\* and the state is left as it is.
C5_CodecFailureLeavesErrorUnlessStopped ==
    /\ (lastRet.op = "read"
        /\ lastRet.fails \cap (BufferFailures \ {"deqOutNotStarted"}) # {})
          => lastRet.state = "ERROR"
    /\ (lastRet.op = "read" /\ lastRet.fails = {"deqOutNotStarted"})
          => (lastRet.ret = "EOS" /\ lastRet.state # "STARTED")

\* C5 witness: a queueInputBuffer failure that did not end the read at once;
\* the read returned later, through the "abort read on stop" exit.
C5_Witness ==
    /\ lastRet.op = "read"
    /\ "queueData" \in lastRet.fails
    /\ lastRet.ret = "EOS"

\* C6: a stop() that waits on mReadCondition eventually returns.
C6_WaitingStopReturns ==
    \A t \in Threads : (pc[t] = "stopWait") ~> (pc[t] = "idle")

\* C6 witness: a stop() that had to wait for a read has returned.
C6_Witness == lastRet.op = "stop" /\ lastRet.waited

\* C7 as stated: start() from INIT ends in STARTED and returns OK; start()
\* from any other state returns -EINVAL, leaves the state alone and starts
\* neither the codec nor the source.
C7_StartAlwaysSucceedsFromInit ==
    lastRet.op = "start" =>
        IF lastRet.from = "INIT"
        THEN lastRet.state = "STARTED" /\ lastRet.ret = "OK"
        ELSE /\ lastRet.ret = "EINVAL"
             /\ lastRet.state = lastRet.from
             /\ ~lastRet.touched

\* C7 as amended: start() from INIT ends in STARTED and returns OK when
\* mCodec->start() and mSource->start() both succeed, and ends in ERROR with
\* the failing status otherwise; the second half is as stated.
C7_StartSucceedsIfCodecAndSourceStart ==
    lastRet.op = "start" =>
        IF lastRet.from = "INIT"
        THEN IF lastRet.fails = {}
             THEN lastRet.state = "STARTED" /\ lastRet.ret = "OK"
             ELSE lastRet.state = "ERROR" /\ lastRet.ret = "ERR"
        ELSE /\ lastRet.ret = "EINVAL"
             /\ lastRet.state = lastRet.from
             /\ ~lastRet.touched

\* C7 witness: a second start() on a started adapter has been refused.
C7_Witness ==
    /\ lastRet.op = "start"
    /\ lastRet.from = "STARTED"
    /\ lastRet.ret = "EINVAL"

(***************************************************************************)
(* Claims about the control-socket client.                                 *)
(***************************************************************************)

\* The index of the first c in raw at or after from; 0 if there is none.
FirstIndex(raw, from, c) ==
    LET hits == {i \in from..Len(raw) : raw[i] = c}
    IN  IF hits = {} THEN 0 ELSE SetMin(hits)

\* The blank that ends the interface name, and the '>' that ends the tag.
IfaceEnd(raw) == FirstIndex(raw, 1, " ")
TagEnd(raw) == FirstIndex(raw, IfaceEnd(raw) + 2, ">")

\* raw has the form IFNAME=<iface> <N>EVENT: an interface name, one blank, a
\* decimal level in angle brackets, and the event.
TaggedIfnameForm(raw) ==
    /\ Len(raw) > IFNAMELEN
    /\ SubSeq(raw, 1, IFNAMELEN) = IFNAME
    /\ IfaceEnd(raw) > IFNAMELEN + 1
    /\ IfaceEnd(raw) < Len(raw)
    /\ raw[IfaceEnd(raw) + 1] = "<"
    /\ TagEnd(raw) > IfaceEnd(raw) + 2
    /\ \A i \in (IfaceEnd(raw) + 2)..(TagEnd(raw) - 1) : raw[i] = "3"

EventOf(raw) == SubSeq(raw, TagEnd(raw) + 1, Len(raw))

ExampleEvent == <<"C", "T", "R", "L", "-", "E", "V", "E", "N", "T", "-", "C", "O", "N", "N", "E", "C", "T", "E", "D", " ", "-", " ", "f", "o", "o">>

\* C8: for a received event IFNAME=<iface> <N>EVENT the caller gets exactly
\* EVENT; for the example payload, "CTRL-EVENT-CONNECTED - foo".  The code
\* removes the level tag only (memmove(match + 1, match2 + 1, ...)) and hands
\* over "IFNAME=<iface> EVENT".
C8_DeliversBareEvent ==
    /\ (wlast.kind = "event" /\ TaggedIfnameForm(wlast.raw))
          => wlast.str = EventOf(wlast.raw)
    /\ (wlast.kind = "event" /\ wlast.raw = ExamplePayload)
          => wlast.str = ExampleEvent

\* The kinds of return that hand the caller a CTRL-EVENT-TERMINATING event.
TerminatingKinds == {"closed", "recv error", "signal 0"}

\* C9 as stated: a wait during which a command timed out returns the
\* synthetic CTRL-EVENT-TERMINATING event.
C9_CancelledWaitTerminates ==
    wlast.cancelled => wlast.kind \in TerminatingKinds

\* C9 as amended: a wait during which a command timed out does not go on
\* waiting.  It returns the synthetic CTRL-EVENT-TERMINATING event unless the
\* monitor socket had an event to read when poll returned: that event is
\* delivered instead.
C9_CancelledWaitReturnsTerminatingOrEvent ==
    /\ [](wlast.cancelled =>
            \/ wlast.kind \in TerminatingKinds
            \/ wlast.kind = "event" /\ wlast.monReady)
    /\ []((wlast.cancelled /\ ~wlast.monReady) =>
            wlast.kind \in {"closed", "recv error"})
    /\ ((wpc = "poll" /\ wcancelled) ~> (wpc = "idle"))

\* C9 witness: a wait was cancelled by a timed-out command and returned the
\* "connection closed" event.
C9_Witness ==
    /\ wlast.cancelled
    /\ ~wlast.monReady
    /\ wlast.kind = "closed"

(***************************************************************************)
(* Claims about SupplicantManager::StartSupplicant.                        *)
(***************************************************************************)

\* C10: when the supplicant is not running and
\* ensure_config_file_exists(kSupplicantConfigFile) reports failure,
\* StartSupplicant returns false and does not write ctl.start.
C10_NoStartWithoutConfigFile ==
    /\ spc = "polling" => ensured # 0
    /\ (slast.called /\ slast.ensured = 0)
          => (~slast.ret /\ ~slast.ctlStarts)

\* C11: a StartSupplicant call that found the supplicant not running and
\* went on to poll makes at most StartPollCount polls; it returns true only
\* after a poll that read a changed serial and "running"; it returns false
\* after a poll that read a changed serial and "stopped", or after
\* StartPollCount polls without either; it does not return otherwise.
C11_StartPollsAtMost200 ==
    /\ spc = "polling" => count \in 0..StartPollCount
    /\ (slast.called /\ slast.ctlStarts) =>
          /\ slast.polls \in 1..StartPollCount
          /\ slast.ret => (slast.changed /\ slast.seen = "running")
          /\ (slast.changed /\ slast.seen = "stopped") => ~slast.ret
          /\ ~(slast.changed /\ slast.seen \in {"running", "stopped"})
                => (~slast.ret /\ slast.polls = StartPollCount)

\* C11 witness: a call has returned false after all its polls, the last of
\* which read a changed serial and a status that is neither "running" nor
\* "stopped".
C11_Witness ==
    /\ slast.called /\ slast.ctlStarts
    /\ ~slast.ret
    /\ slast.polls = StartPollCount
    /\ slast.changed /\ slast.seen = "restarting"

\* Where font id k stands in the order of the last accesses (0: never asked for).
AccessRank(k) ==
    IF k \in SeqRange(fcAccess)
    THEN CHOOSE i \in DOMAIN fcAccess : fcAccess[i] = k
    ELSE 0

\* The last operation was a get that put a font in the cache.
InsertedLast == fcLast.op = "get" /\ ~fcLast.hit

\* C12: after any gets and purges the font cache holds at most 100 entries; a
\* get of a new font id that finds the cache full evicts the entry whose last
\* access (insertion or get hit) is the oldest, and evicts nothing otherwise;
\* 101 distinct inserts with no re-access and no purge leave exactly the
\* fonts 2..101; and when font 1 was got again after font 2 was inserted,
\* the 101st insert evicts font 2 and font 1 stays.
C12_CacheEvictsLeastRecentlyAccessed ==
    /\ Len(mCache) <= kMaxEntries
    /\ (InsertedLast /\ fcLast.full) =>
          /\ fcLast.evicted # 0
          /\ fcLast.evicted = fcLast.oldest
          /\ fcLast.evicted \notin SeqRange(mCache)
          /\ Len(mCache) = kMaxEntries
    /\ (InsertedLast /\ ~fcLast.full) => fcLast.evicted = 0
    /\ (fcNext = kMaxEntries + 2 /\ fcReaccesses = 0 /\ fcPurges = 0) =>
          /\ Len(mCache) = kMaxEntries
          /\ SeqRange(mCache) = 2..(kMaxEntries + 1)
    /\ (/\ InsertedLast /\ fcLast.id = kMaxEntries + 1
        /\ fcReaccesses = 1 /\ fcPurges = 0
        /\ AccessRank(1) > AccessRank(2)) =>
          /\ fcLast.evicted = 2
          /\ 1 \in SeqRange(mCache)

\* The 101st insert after font 1 was got again: font 2 is evicted.
C12_Witness ==
    /\ InsertedLast /\ fcLast.id = kMaxEntries + 1 /\ fcLast.full
    /\ fcReaccesses = 1 /\ fcPurges = 0
    /\ AccessRank(1) > AccessRank(2)
    /\ fcLast.evicted = 2
    /\ 1 \in SeqRange(mCache)
    /\ Len(mCache) = kMaxEntries

(***************************************************************************)
(* Claims about the cue lookup of MatroskaExtractor.                       *)
(***************************************************************************)
Ascending(cues) ==
    \A i, j \in DOMAIN cues : i < j => cues[i] <= cues[j]

\* Cue i (from 0) is a right answer for timeNs: the last cue point not later
\* than timeNs, or, when every cue point is later, the earliest one.
CorrectCue(cues, timeNs, i) ==
    LET notLater == {k \in DOMAIN cues : cues[k] <= timeNs}
    IN  IF notLater = {}
        THEN \A k \in DOMAIN cues : cues[i + 1] <= cues[k]
        ELSE /\ (i + 1) \in notLater
             /\ \A k \in notLater : cues[k] <= cues[i + 1]

\* C13: when the cached cue list is not in ascending time order,
\* TrackInfo::find returns NULL or the cue point that is right for the time
\* asked for, never another one.
C13_OutOfOrderCuesGiveNotFound ==
    (cueLast.called /\ ~Ascending(mCuePoints)) =>
        \/ ~cueLast.found
        \/ CorrectCue(mCuePoints, cueLast.timeNs, cueLast.index)

\* The cue points (numbered from 0) whose time is not later than timeNs.
NotLater(cues, timeNs) == {i \in 0..(Len(cues) - 1) : CueTimeAt(cues, i) <= timeNs}

LastOf(S) == CHOOSE i \in S : \A j \in S : j <= i

\* C28 as stated: on a non-empty cue list in ascending time order, the
\* lookup for a time returns the last cue point whose time is not later than
\* that time.
C28_FindsLastCueNotLater ==
    (cueLast.called /\ mCuePoints # <<>> /\ Ascending(mCuePoints)) =>
        /\ cueLast.found
        /\ NotLater(mCuePoints, cueLast.timeNs) # {}
        /\ cueLast.index = LastOf(NotLater(mCuePoints, cueLast.timeNs))

\* C28, amended: on a non-empty cue list in ascending time order, the lookup
\* for a time that is not later than the first cue point's time returns the
\* first cue point; for a later time it returns the last cue point whose time
\* is not later than that time.
C28_FindsFirstOrLastCueNotLater ==
    (cueLast.called /\ mCuePoints # <<>> /\ Ascending(mCuePoints)) =>
        /\ cueLast.found
        /\ cueLast.index =
              IF cueLast.timeNs <= CueTimeAt(mCuePoints, 0) THEN 0
              ELSE LastOf(NotLater(mCuePoints, cueLast.timeNs))

\* C28 witness: a lookup on an ascending list of three cue points found the
\* second one: the third is later than the time asked for.
C28_Witness ==
    /\ cueLast.called /\ cueLast.found
    /\ Len(mCuePoints) = 3 /\ Ascending(mCuePoints)
    /\ cueLast.index = 1
    /\ CueTimeAt(mCuePoints, 0) < cueLast.timeNs
    /\ CueTimeAt(mCuePoints, 2) > cueLast.timeNs

(***************************************************************************)
(* Claims about the AVC frame reassembly of MatroskaSource::read.          *)
(***************************************************************************)
\* The length field of the fragment that starts at offset off (from 0), most
\* significant byte first.
RECURSIVE BigEndian(_, _, _)
BigEndian(src, off, n) ==
    IF n = 0 THEN 0
    ELSE BigEndian(src, off, n - 1) * 256 + src[off + n]

\* The fragments of a frame, read off its length fields: "tiled" when they
\* end exactly at the end of the frame, "overclaim" when a length field
\* claims more bytes than remain, "short" when fewer bytes than a length
\* field remain.
RECURSIVE Fragments(_, _, _, _)
Fragments(src, n, off, frags) ==
    IF off = Len(src) THEN [shape |-> "tiled", frags |-> frags]
    ELSE IF off + n > Len(src) THEN [shape |-> "short", frags |-> frags]
    ELSE LET size == BigEndian(src, off, n)
         IN  IF off + n + size > Len(src)
             THEN [shape |-> "overclaim", frags |-> frags]
             ELSE Fragments(src, n, off + n + size,
                            Append(frags, SubSeq(src, off + n + 1, off + n + size)))

RECURSIVE WithStartCodes(_)
WithStartCodes(frags) ==
    IF frags = <<>> THEN <<>>
    ELSE <<0, 0, 0, 1>> \o Head(frags) \o WithStartCodes(Tail(frags))

FrameShape == Fragments(nalFrame, mNALSizeLen, 0, <<>>)
ReadAVC == nalOut.called /\ mNALSizeLen \in 1..4

\* C14: read() of an AVC frame whose length-prefixed fragments exactly tile
\* it returns OK with the fragments in order, each after the start code
\* 00 00 00 01; a frame with a length field that claims more bytes than
\* remain gives ERROR_MALFORMED.
C14_TiledFrameIsReassembled ==
    /\ (ReadAVC /\ FrameShape.shape = "tiled") =>
          /\ nalOut.status = "OK"
          /\ nalOut.data = WithStartCodes(FrameShape.frags)
    /\ (ReadAVC /\ FrameShape.shape = "overclaim") =>
          nalOut.status = "ERROR_MALFORMED"

NoEmptyFragment == \A i \in DOMAIN FrameShape.frags : FrameShape.frags[i] # <<>>

\* C14, amended: the same for frames whose fragments are all non-empty; a
\* frame with a fragment of length 0 gives ERROR_MALFORMED, and so does one
\* that ends inside a length field.
C14_TiledNonEmptyFragmentsAreReassembled ==
    /\ (ReadAVC /\ FrameShape.shape = "tiled" /\ NoEmptyFragment) =>
          /\ nalOut.status = "OK"
          /\ nalOut.data = WithStartCodes(FrameShape.frags)
    /\ (ReadAVC /\ ~NoEmptyFragment) => nalOut.status = "ERROR_MALFORMED"
    /\ (ReadAVC /\ FrameShape.shape \in {"overclaim", "short"}) =>
          nalOut.status = "ERROR_MALFORMED"

\* Two fragments behind one-byte length fields were reassembled.
C14_Witness ==
    /\ ReadAVC /\ FrameShape.shape = "tiled" /\ NoEmptyFragment
    /\ Len(FrameShape.frags) = 2
    /\ nalOut.status = "OK"
    /\ Len(nalOut.data) = Len(nalFrame) + 6

(***************************************************************************)
(* Claims about addVorbisCodecInfo.                                        *)
(***************************************************************************)
\* C15: for codec-private bytes 02, the Xiph-laced lengths of ident and
\* comment, then ident (tag 01), comment (tag 03) and setup (tag 05),
\* addVorbisCodecInfo returns OK and stores ident as the identification blob
\* and setup as the setup blob; bytes that do not start with 02 give
\* ERROR_MALFORMED.
C15_VorbisHeadersAreSplit ==
    /\ (vorbisOut.called /\ vorbisParts.built) =>
          /\ vorbisOut.status = "OK"
          /\ vorbisOut.info = [set |-> TRUE, data |-> vorbisParts.ident]
          /\ vorbisOut.books = [set |-> TRUE, data |-> vorbisParts.setup]
    /\ (vorbisOut.called /\ (codecPrivate = <<>> \/ Head(codecPrivate) # 2)) =>
          /\ vorbisOut.status = "ERROR_MALFORMED"
          /\ ~vorbisOut.info.set /\ ~vorbisOut.books.set

\* Headers of 510 and 255 bytes, whose lengths take three and two bytes,
\* were split.
C15_Witness ==
    /\ vorbisOut.called /\ vorbisParts.built
    /\ Len(vorbisParts.ident) = 2 * 255
    /\ Len(vorbisParts.comment) = 255
    /\ vorbisOut.status = "OK"
    /\ Len(vorbisOut.info.data) = 2 * 255
    /\ Len(vorbisOut.books.data) = 2

(***************************************************************************)
(* Claims about WordBreaker.                                               *)
(***************************************************************************)
\* The break iterator proposes offset b and the character before it is a
\* soft hyphen.
ProposedAfterSoftHyphen(b) ==
    b \in icuBoundaries /\ b > 0 /\ mText[b] = CHAR_SOFT_HYPHEN

\* The first proposed offset after mLast that is the end of the text or
\* passes isBreakValid; DONE when there is none.
AcceptedAfterLast ==
    {b \in icuBoundaries : b > mLast /\ (b = Len(mText) \/ isBreakValid(mText, b))}
FirstAcceptedAfterLast ==
    IF AcceptedAfterLast = {} THEN DONE
    ELSE CHOOSE b \in AcceptedAfterLast : \A o \in AcceptedAfterLast : b <= o

\* C16: next() never returns an offset the break iterator proposed right
\* after a soft hyphen; it returns the next valid boundary instead.
C16_NeverBreaksAfterSoftHyphen ==
    wbLast.called =>
        /\ ~ProposedAfterSoftHyphen(wbLast.ret)
        /\ ~wbLast.email => wbLast.ret = FirstAcceptedAfterLast

\* C16, amended: next() returns an offset proposed right after a soft hyphen
\* only when it is the end of the text or the end of a recognised email
\* address or URL (which reaches to the iterator's next boundary); outside
\* such a run next() returns the first proposed offset after the previous
\* one that is the end of the text or valid.
C16_BreaksAfterSoftHyphenOnlyAtEnd ==
    wbLast.called =>
        /\ ProposedAfterSoftHyphen(wbLast.ret) =>
              \/ wbLast.ret = Len(mText)
              \/ wbLast.email /\ wbLast.ret = mScanOffset
        /\ ~wbLast.email => wbLast.ret = FirstAcceptedAfterLast

\* next() passed over an offset proposed right after a soft hyphen and
\* returned a later one that is not the end of the text.
C16_Witness ==
    /\ wbLast.called /\ ~wbLast.email
    /\ wbLast.ret # DONE /\ wbLast.ret < Len(mText)
    /\ \E b \in icuBoundaries :
         mLast < b /\ b < wbLast.ret /\ ProposedAfterSoftHyphen(b)

\* The characters from offset from up to offset to hold an "@" or "://".
HasAtOrScheme(text, from, to) ==
    \/ \E i \in (from + 1)..to : text[i] = "@"
    \/ \E i \in (from + 1)..(to - 2) :
         text[i] = ":" /\ text[i + 1] = "/" /\ text[i + 2] = "/"

\* The current boundary lies inside the email address or URL the last scan
\* recognised, before its scan offset.
InsideRun ==
    /\ wbRun.recognised
    /\ wbRun.start < mCurrent /\ mCurrent < wbRun.end

\* C17: after each next(), breakBadness() is 1 exactly when the current
\* boundary lies inside a recognised email address or URL before its scan
\* offset, and 0 at the boundary that ends it and outside; in
\* "write to a.b@c.com today" it is 1 at the boundaries 10 and 14 inside
\* "a.b@c.com" and 0 at 6, 9, 19 and 24.
C17_BadnessInsideEmailOrUrl ==
    wbLast.called =>
        /\ breakBadness = 1 <=> InsideRun
        /\ breakBadness \in {0, 1}
        /\ wbRun.recognised => HasAtOrScheme(mText, wbRun.start, wbRun.end)
        /\ mText = ExampleText =>
              /\ mCurrent \in {6, 9, 10, 14, 19, 24, DONE}
              /\ breakBadness = 1 <=> mCurrent \in {10, 14}

C17_Witness ==
    /\ wbLast.called
    /\ mText = ExampleText
    /\ mCurrent = 14 /\ mLast = 10
    /\ InsideRun
    /\ breakBadness = 1

(***************************************************************************)
(* Claims about the SPIR-V linker.                                         *)
(***************************************************************************)
\* A line refers to an identifier: it is one of the line's identifiers.
RefersTo(line, id) ==
    \E k \in DOMAIN getIdentifiers(line, 0) : getIdentifiers(line, 0)[k] = id

\* Lines i < j of the module define types or constants with the same
\* right-hand side under different identifiers, and line i is the first
\* line with that right-hand side.
DuplicateDefinitions(i, j) ==
    /\ i < j
    /\ \A k \in 1..(i - 1) :
          IsAssignment(fuseModule[k]) => getRHS(fuseModule[k]) # getRHS(fuseModule[i])
    /\ IsAssignment(fuseModule[i]) /\ IsTypeOrConstant(fuseModule[i])
    /\ IsAssignment(fuseModule[j]) /\ IsTypeOrConstant(fuseModule[j])
    /\ getRHS(fuseModule[i]) = getRHS(fuseModule[j])
    /\ getLHSIdentifier(fuseModule[i]) # getLHSIdentifier(fuseModule[j])

\* C18: after FuseTypesAndConstants, of two type or constant definitions
\* with identical right-hand sides and different identifiers only the first
\* remains, and no line of the module refers to the identifier of the
\* second.
C18_FusionLeavesNoReference ==
    fuseOut.called =>
        \A i, j \in DOMAIN fuseModule :
            DuplicateDefinitions(i, j) =>
                /\ \E k \in DOMAIN fuseOut.lines : fuseOut.lines[k] = fuseModule[i]
                /\ \A k \in DOMAIN fuseOut.lines :
                      ~RefersTo(fuseOut.lines[k], getLHSIdentifier(fuseModule[j]))

\* The rank of each kind in the canonical order.
KindRank(kind) ==
    CASE kind = "BK_Header" -> 0
      [] kind = "BK_Decor" -> 1
      [] kind = "BK_TypeAndConst" -> 2
      [] kind = "BK_Var" -> 3
      [] kind = "BK_FunDecl" -> 4
      [] kind = "BK_Function" -> 5
      [] kind = "BK_MainFun" -> 6

\* C19: after fixBlockOrder the blocks are the same blocks, in non-decreasing
\* rank header, decoration, type/constant, variable, function declaration,
\* function, main function, and blocks of one kind are in their original
\* relative order.
C19_BlocksInKindOrder ==
    orderFixed =>
        /\ Len(Blocks) = Len(blocksBefore)
        /\ \A i \in DOMAIN blocksBefore : \E j \in DOMAIN Blocks : Blocks[j] = blocksBefore[i]
        /\ \A i, j \in DOMAIN Blocks :
              i < j => KindRank(Blocks[i].kind) <= KindRank(Blocks[j].kind)
        /\ \A i, j \in DOMAIN Blocks :
              (i < j /\ Blocks[i].kind = Blocks[j].kind)
                  => Blocks[i].number < Blocks[j].number

\* A main function, a function, a variable block and a type block, then a
\* second function: reordered, the two functions in their original order.
C19_Witness ==
    /\ orderFixed
    /\ Len(Blocks) = 4
    /\ blocksBefore[1].kind = "BK_MainFun"
    /\ blocksBefore[2].kind = "BK_Function"
    /\ blocksBefore[3].kind = "BK_TypeAndConst"
    /\ blocksBefore[4].kind = "BK_Function"
    /\ Blocks[1].number = 3 /\ Blocks[2].number = 2
    /\ Blocks[3].number = 4 /\ Blocks[4].number = 1

(***************************************************************************)
(* Claims about the reflection pass.                                       *)
(***************************************************************************)
Written(line) == \E k \in DOMAIN reflOut.lines : reflOut.lines[k] = line

\* C20: when emitDecorations succeeds, the i-th detected allocation global
\* (from 0) is decorated with descriptor set 0 and binding 3 + i.
C20_AllocationsBoundFromThree ==
    (reflOut.called /\ reflOut.ok) =>
        \A i \in DOMAIN RSAllocs :
            /\ Written([op |-> "OpDecorate", target |-> <<RSAllocs[i], "_var">>,
                        member |-> 0, decoration |-> "DescriptorSet", value |-> 0])
            /\ Written([op |-> "OpDecorate", target |-> <<RSAllocs[i], "_var">>,
                        member |-> 0, decoration |-> "Binding",
                        value |-> 3 + (i - 1)])

(***************************************************************************)
(* Claims about doRead's retry loop and about what read() delivers.        *)
(***************************************************************************)
\* C21: a read during which every output dequeue reports "no buffer yet"
\* and no stop occurs returns TIMED_OUT after a fixed number of retries: the
\* read has returned by the end of pass RetryWrap - 1, so that no read in
\* progress is in a later pass.
C21_ReadTimesOutAtRetryCeiling ==
    \A t \in Threads :
        pc[t] \in {"srcRead", "outDeq"} => retries[t] < RetryWrap

\* C27: a read returns OK exactly when it delivers a buffer.
C27_SuccessIffBufferDelivered ==
    lastRet.op = "read" => (lastRet.ret = "OK" <=> lastRet.buffer # "NULL")

(***************************************************************************)
(* Claim about the reads of addVorbisCodecInfo.                            *)
(***************************************************************************)
\* C30: whatever bytes and length it is given, addVorbisCodecInfo reads no
\* byte at an index that is not below the length.
C30_VorbisReadsStayInside ==
    vorbisOut.called => vorbisRead < Len(codecPrivate)

(***************************************************************************)
(* Claim about the descriptors the control-socket client closes.           *)
(***************************************************************************)
\* The descriptors the client opens itself: the pair socketpair() fills in.
OpenedBySocketpair == {3, 4}

\* wifi_close_sockets, lines 101-109: the entries of exit_sockets it calls
\* close() on.
ClosedEntries == {i \in 1..2 : exit_sockets[i] >= 0}

\* C29: in any sequence of connect, command, wait and close calls, every
\* close call closes only descriptors the client opened itself, and no
\* descriptor twice.
C29_ClosesOnlyOwnDescriptorsOnce ==
    [][CloseSupplicantConnection =>
        /\ \A i \in ClosedEntries : exit_sockets[i] \in OpenedBySocketpair
        /\ \A i, j \in ClosedEntries :
              i # j => exit_sockets[i] # exit_sockets[j]]_vars

(***************************************************************************)
(* Claim about android_net_wifi_nan_publish.                               *)
(***************************************************************************)
\* C23: publish called with a service name longer than the maximum
\* service-name length returns 0 and does not call the hardware layer's
\* publish function.
C23_OverlongServiceNameIsRejected ==
    (awareOut.called
        /\ Len(publish_config.mServiceName) > NAN_MAX_SERVICE_NAME_LEN) =>
        /\ awareOut.ret = 0
        /\ awareOut.hal = <<>>

\* C23 witness: publish was called with an overlong service name, everything
\* else within its limit, while the hardware layer would have answered with a
\* failure.
C23_Witness ==
    /\ awareOut.called
    /\ Len(publish_config.mServiceName) > NAN_MAX_SERVICE_NAME_LEN
    /\ Len(publish_config.mServiceSpecificInfo)
          <= NAN_MAX_SERVICE_SPECIFIC_INFO_LEN
    /\ Len(publish_config.mMatchFilter) <= NAN_MAX_MATCH_FILTER_LEN
    /\ halReturn # 0

(***************************************************************************)
(* Claim about FixVectorShuffles.                                          *)
(***************************************************************************)
\* C22: the fix-up applied twice gives, for every OpVectorShuffle line, the
\* line that the fix-up applied once gives.
C22_ShuffleFixIsIdempotent ==
    shufFixes >= 2 =>
        \A i \in DOMAIN shufLines :
            LineContains(shufInput[i], <<"OpVectorShuffle">>) =>
                shufLines[i] = shufFirst[i]

\* C22 witness: the fix-up was applied twice to a shuffle with two undef
\* components in a row, the second one at the end of the line, and both are
\* zeros.
C22_Witness ==
    /\ shufFixes = 2
    /\ \E i \in DOMAIN shufLines :
         /\ shufInput[i] = ShuffleLine(<<" ", "0">> \o <<" ">> \o UndefLiteral
                                          \o <<" ">> \o UndefLiteral)
         /\ shufLines[i] = ShuffleLine(<<" ", "0", " ", "0", " ", "0">>)

(***************************************************************************)
(* Claim about SPIRVLine::replaceId.                                       *)
(***************************************************************************)
\* The places (from 0) where id stands in the line as a complete identifier:
\* white space or the end of the line follows it.
TokenPlaces(line, id) ==
    {p \in 0..Len(line) :
        /\ Occurs(line, id, p)
        /\ \/ p + Len(id) = Len(line)
           \/ IsSpace(line[p + Len(id) + 1])}

\* C24: replaceId(Old, New) returns false and leaves the line as it is when
\* Old is no identifier of the line; otherwise it returns true and the line
\* is the old line with one complete identifier Old replaced by New.
C24_ReplaceIdReplacesOneWholeIdentifier ==
    ridLast.called =>
        IF TokenPlaces(ridLast.before, ridLast.original) = {}
        THEN ~ridLast.res /\ ridLine = ridLast.before
        ELSE /\ ridLast.res
             /\ \E p \in TokenPlaces(ridLast.before, ridLast.original) :
                  ridLine = StrReplace(ridLast.before, p,
                                       Len(ridLast.original), ridLast.new)

(***************************************************************************)
(*                Claims about the inlining of calls in main               *)
(***************************************************************************)
\* The line with every identifier that is the first of a pair replaced by the
\* second of that pair, all at once.  An identifier is "%" and its name.
SubstIds(line, pairs) ==
    [i \in DOMAIN line |->
        IF i > 1 /\ line[i - 1] = "%"
              /\ \E pr \in pairs : pr[1] = <<"%", line[i]>>
        THEN (CHOOSE pr \in pairs : pr[1] = <<"%", line[i]>>)[2][2]
        ELSE line[i]]

\* The function block a call line calls.
CalleeOf(funs, line) ==
    funs[CHOOSE k \in DOMAIN funs :
            getFunctionName(funs[k]) = GetFunctionCallInfo(line).FName]

\* The results of the calls in main, each with the name of the value its
\* callee returns.
ResultPairs(funs, main) ==
    {<<GetFunctionCallInfo(main[i]).RetValName,
       getRetValName(CalleeOf(funs, main[i])).id>> :
        i \in {j \in 2..Len(main) :
                  /\ IsCallLine(main[j])
                  /\ getRetValName(CalleeOf(funs, main[j])).found}}

\* The parameters of the callee of a call line, each with the argument the
\* call line passes for it.
ArgumentPairs(funs, line) ==
    {<<getArgNames(CalleeOf(funs, line))[k],
       GetFunctionCallInfo(line).ArgNames[k]>> :
        k \in 1..getArity(CalleeOf(funs, line))}

\* The copy of the callee's body that stands for a call line: the body with
\* the arguments of this call for the parameters.
CopyFor(funs, main, line) ==
    [k \in DOMAIN body(CalleeOf(funs, line)) |->
        SubstIds(SubstIds(body(CalleeOf(funs, line))[k],
                          ArgumentPairs(funs, line)),
                 ResultPairs(funs, main))]

\* Main from line i on, every call line replaced by its copy, and the result
\* of a call named as the callee names the value it returns.
RECURSIVE InlinedFrom(_, _, _)
InlinedFrom(funs, main, i) ==
    IF i > Len(main) THEN <<>>
    ELSE (IF i > 1 /\ IsCallLine(main[i])
          THEN CopyFor(funs, main, main[i])
          ELSE <<SubstIds(main[i], ResultPairs(funs, main))>>)
         \o InlinedFrom(funs, main, i + 1)

\* C25: after InlineFunctionCalls has inlined the calls of main, the copy of
\* the callee's body that replaced a call refers to the arguments and to the
\* result of that call, for every call of main, two calls of one callee
\* included.
C25_InlinedCopiesUseTheirOwnCallSite ==
    (inlState \in {"inlining", "done"} /\ inlBefore \in MainFunctions)
        => inlMain = InlinedFrom(inlFuns, inlBefore, 1)

\* C26: Link ends, with success or with an error, for every kernel module
\* none of whose functions calls itself, functions that call each other in a
\* circle included.
C26_LinkTerminates ==
    (inlState = "inlining") ~> (inlState \in {"done", "failed"})
====
